---- MODULE Spec2Model ----
(***************************************************************************)
(* Model of the scheduling engine of src/scheduler.py                      *)
(* (class ProductionScheduler): dynamic dependency construction, DAG       *)
(* validation, the priority function, the capacity-aware forward           *)
(* scheduler, the global priority list and the lateness metrics.           *)
(*                                                                         *)
(* Time.  A datetime is the number of minutes since Monday 2025-08-18      *)
(* 00:00, the Monday of the week of the schedule epoch 2025-08-22 06:00,   *)
(* so that weekday(t) = (t \div 1440) % 7 with Monday = 0.                  *)
(*                                                                         *)
(* Priorities.  A priority key is kept in tenths (PriorityScale), so that  *)
(* the retry penalty 0.1 and the term duration/10*2 are integers.          *)
(***************************************************************************)
EXTENDS Integers, Sequences, FiniteSets, TLC

VARIABLES
    \* ---- fields of ProductionScheduler filled by the loaders ----
    tasks,                   \* self.tasks: instance id -> task info
    precedence_constraints,  \* list of [First, Second, Relationship]
    late_part_constraints,   \* list of [First, Second, Relationship]
    rework_constraints,      \* list of [First, Second, Relationship]
    quality_requirements,    \* list of [primary, qi] (dict in insertion order)
    late_part_tasks,         \* keys of self.late_part_tasks
    rework_tasks,            \* keys of self.rework_tasks
    on_dock_dates,           \* late part id -> on-dock datetime
    team_shifts,             \* mechanic team -> list of shifts
    quality_team_shifts,     \* list of [team, shifts] (dict in insertion order)
    delivery_dates,          \* product -> delivery datetime
    holidays,                \* product -> set of holiday days
    \* ---- fields changed by the optimizers and by each run ----
    original_team_capacity,    \* self._original_team_capacity
    original_quality_capacity, \* self._original_quality_capacity
    team_capacity,           \* mechanic team -> people
    quality_team_capacity,   \* quality team -> people
    task_schedule,           \* list of assignments (dict in insertion order)
    global_priority_list,    \* list of priority entries
    \* ---- locals of the running schedule_tasks ----
    pc,                      \* "idle", "running", "done", "raised"
    silent_mode,
    ready_tasks,             \* heap content, in push order
    failed_tasks,
    task_retry_counts,
    scheduled_count,
    iteration_count,
    \* ---- environment and history ----
    now,                     \* the wall clock read by datetime.now()
    clock_ticks,             \* how often the clock was advanced
    runs,                    \* number of completed runs
    prev,                    \* results of the previous completed run
    opt,                     \* the locals of a running optimizer
    app                      \* src/app.py: initialization status, lock, requests, threads

loaded == <<tasks, precedence_constraints, late_part_constraints,
            rework_constraints, quality_requirements, late_part_tasks,
            rework_tasks, on_dock_dates, team_shifts, quality_team_shifts,
            delivery_dates, holidays, original_team_capacity,
            original_quality_capacity>>
capacities == <<team_capacity, quality_team_capacity>>
locals == <<silent_mode, ready_tasks, failed_tasks, task_retry_counts,
            scheduled_count, iteration_count>>
vars == <<loaded, capacities, task_schedule, global_priority_list, pc,
          locals, now, clock_ticks, runs, prev, opt, app>>

-----------------------------------------------------------------------------
(* Calendar and shift model                                                *)

MinutesPerDay == 1440
Shift1Start == 360
Shift2Start == 870
Shift3Start == 1380
\* datetime(2025, 8, 22, 6, 0): Friday of the epoch week, 06:00
StartDate == 4 * MinutesPerDay + Shift1Start
None == "None"
Shifts == <<"1st", "2nd", "3rd">>

RECURSIVE GCD(_, _)
GCD(a, b) == IF b = 0 THEN a ELSE GCD(b, a % b)

\* The loops of check_team_capacity_at_time and of
\* get_next_working_time_with_capacity advance one minute at a time.  Every
\* shift boundary is a multiple of Tick minutes, and the inputs of the model
\* keep every duration a positive multiple of Tick, so every start and end
\* time is a multiple of Tick and the headcount in use, the shift and the
\* working day are constant on each [k*Tick, (k+1)*Tick).  Tick consecutive
\* one-minute iterations therefore take the same branch, and the model runs
\* them as one step that advances the time and the iteration counter by
\* Tick.
Tick == GCD(Shift1Start, GCD(Shift2Start, GCD(Shift3Start, MinutesPerDay)))

DayOf(t) == t \div MinutesPerDay
Day(d) == d * MinutesPerDay
MinuteOfDay(t) == t % MinutesPerDay
\* date.weekday()
Weekday(t) == DayOf(t) % 7
\* current_time.replace(hour=h, minute=m, second=0)
ReplaceTime(t, minuteOfDay) == DayOf(t) * MinutesPerDay + minuteOfDay

\* a calendar that forgets the weekend
is_working_dayEveryWeekday(date, product_line) ==
    DayOf(date) \notin holidays[product_line]

is_working_day(date, product_line) ==
    IF Weekday(date) >= 5 THEN FALSE
    ELSE IF DayOf(date) \in holidays[product_line] THEN FALSE
    ELSE TRUE

\* the window tests of get_next_working_time_with_capacity
InWindow(shift, current_minutes) ==
    CASE shift = "1st" -> Shift1Start <= current_minutes /\ current_minutes < Shift2Start
      [] shift = "2nd" -> Shift2Start <= current_minutes /\ current_minutes < Shift3Start
      [] shift = "3rd" -> current_minutes >= Shift3Start \/ current_minutes < Shift1Start
      [] OTHER -> FALSE

-----------------------------------------------------------------------------
(* Sequence helpers                                                        *)

Range(s) == {s[i] : i \in DOMAIN s}

RECURSIVE SumSeq(_)
SumSeq(s) == IF s = <<>> THEN 0 ELSE Head(s) + SumSeq(Tail(s))

\* the entries of a list that satisfy Test, in list order
SelectSeqBy(s, Test(_)) == SelectSeq(s, Test)

\* dict lookups on lists kept in insertion order
Scheduled == {task_schedule[i].task_id : i \in DOMAIN task_schedule}
Sched(task_id) ==
    task_schedule[CHOOSE i \in DOMAIN task_schedule : task_schedule[i].task_id = task_id]
QualityTeams == {quality_team_shifts[i].team : i \in DOMAIN quality_team_shifts}
QualityShifts(team) ==
    quality_team_shifts[CHOOSE i \in DOMAIN quality_team_shifts :
                            quality_team_shifts[i].team = team].shifts
HasQI(task_id) == \E i \in DOMAIN quality_requirements : quality_requirements[i].primary = task_id
QIOf(task_id) ==
    quality_requirements[CHOOSE i \in DOMAIN quality_requirements :
                             quality_requirements[i].primary = task_id].qi
quality_inspections == {quality_requirements[i].qi : i \in DOMAIN quality_requirements}

-----------------------------------------------------------------------------
(* Capacity check and capacity search                                      *)

\* self.team_capacity.get(team, 0) or self.quality_team_capacity.get(team, 0)
CapacityOf(team) ==
    LET c == IF team \in DOMAIN team_capacity THEN team_capacity[team] ELSE 0
    IN IF c # 0 THEN c
       ELSE IF team \in DOMAIN quality_team_capacity THEN quality_team_capacity[team] ELSE 0

\* usage of a team at minute current under a schedule
UsageAt(schedule, team, current) ==
    SumSeq([i \in DOMAIN schedule |->
              IF /\ schedule[i].team = team
                 /\ schedule[i].start_time <= current
                 /\ current < schedule[i].end_time
              THEN schedule[i].mechanics_required ELSE 0])

\* the minutes visited by "while current < end_time", one per Tick
MinutesBetween(start_time, end_time) ==
    {start_time + k * Tick : k \in 0 .. ((end_time - start_time + Tick - 1) \div Tick) - 1}

\* a capacity check that forgets the crew of the task being placed
CapacityFreeIgnoringCrew(schedule, team, start_time, end_time, mechanics_needed) ==
    \A current \in MinutesBetween(start_time, end_time) :
        ~(UsageAt(schedule, team, current) > CapacityOf(team))

\* the capacity check against the assignments of a schedule
CapacityFree(schedule, team, start_time, end_time, mechanics_needed) ==
    \A current \in MinutesBetween(start_time, end_time) :
        ~(UsageAt(schedule, team, current) + mechanics_needed > CapacityOf(team))

check_team_capacity_at_time(team, start_time, end_time, mechanics_needed) ==
    CapacityFree(task_schedule, team, start_time, end_time, mechanics_needed)

SearchMaxIterations == 5000

\* the shift found by the shift tests for the minute of the day, or None
AvailableShift(team, current_minutes, is_quality) ==
    IF is_quality
    THEN IF \E i \in 1 .. 3 :
              /\ InWindow(Shifts[i], current_minutes)
              /\ \E q \in DOMAIN quality_team_shifts : Shifts[i] \in Range(quality_team_shifts[q].shifts)
         THEN Shifts[CHOOSE i \in 1 .. 3 : InWindow(Shifts[i], current_minutes)]
         ELSE None
    ELSE LET ts == IF team \in DOMAIN team_shifts THEN team_shifts[team] ELSE <<>>
         IN IF \E i \in DOMAIN ts : InWindow(ts[i], current_minutes)
            THEN ts[CHOOSE i \in DOMAIN ts :
                        /\ InWindow(ts[i], current_minutes)
                        /\ \A j \in 1 .. i - 1 : ~InWindow(ts[j], current_minutes)]
            ELSE None

\* "Move to next available shift"
NextShiftStart(current_time) ==
    LET current_minutes == MinuteOfDay(current_time)
    IN IF current_minutes < Shift1Start THEN ReplaceTime(current_time, Shift1Start)
       ELSE IF current_minutes < Shift2Start THEN ReplaceTime(current_time, Shift2Start)
       ELSE IF current_minutes < Shift3Start THEN ReplaceTime(current_time, Shift3Start)
       ELSE ReplaceTime(current_time, Shift1Start) + MinutesPerDay

\* one pass of the while loop of get_next_working_time_with_capacity on the
\* search state s = [current_time, iterations, result, shift]; result is
\* "search" while the loop runs, "found" on return, "raise" on RuntimeError
SearchStep(s, product_line, team, mechanics_needed, duration, is_quality) ==
    IF s.result # "search" THEN s
    ELSE IF s.iterations >= SearchMaxIterations THEN [s EXCEPT !.result = "raise"]
    ELSE IF ~is_working_day(s.current_time, product_line)
    THEN [s EXCEPT !.current_time = ReplaceTime(s.current_time, Shift1Start) + MinutesPerDay,
                   !.iterations = @ + 1]
    ELSE LET available_shift == AvailableShift(team, MinuteOfDay(s.current_time), is_quality)
         IN IF available_shift # None
            THEN IF check_team_capacity_at_time(team, s.current_time,
                                                s.current_time + duration, mechanics_needed)
                 THEN [s EXCEPT !.result = "found", !.shift = available_shift,
                                !.iterations = @ + 1]
                 ELSE [s EXCEPT !.current_time = @ + Tick, !.iterations = @ + Tick]
            ELSE [s EXCEPT !.current_time = NextShiftStart(s.current_time),
                           !.iterations = @ + 1]

\* n passes of the loop, by halving so that the evaluation stays shallow
RECURSIVE SearchRun(_, _, _, _, _, _, _)
SearchRun(s, n, product_line, team, mechanics_needed, duration, is_quality) ==
    IF s.result # "search" \/ n = 0 THEN s
    ELSE IF n = 1
    THEN SearchStep(s, product_line, team, mechanics_needed, duration, is_quality)
    ELSE LET half == SearchRun(s, n \div 2, product_line, team, mechanics_needed,
                               duration, is_quality)
         IN IF half.result # "search" THEN half
            ELSE SearchRun(half, n - (n \div 2), product_line, team, mechanics_needed,
                           duration, is_quality)

\* returns [result |-> "found", current_time, shift] or [result |-> "raise"]
get_next_working_time_with_capacity(current_time, product_line, team, mechanics_needed, duration, is_quality) ==
    SearchRun([current_time |-> current_time, iterations |-> 0,
               result |-> "search", shift |-> None],
              SearchMaxIterations + 1, product_line, team, mechanics_needed,
              duration, is_quality)

-----------------------------------------------------------------------------
(* Dynamic dependency construction (build_dynamic_dependencies)            *)

FS == "Finish = Start"
FLS == "Finish <= Start"
SLS == "Start <= Start"
Relationships == {FLS, FS, SLS}

Edge(first, second, relationship) ==
    [First |-> first, Second |-> second, Relationship |-> relationship]

HasEdge(constraints, first, second) ==
    \E i \in DOMAIN constraints : constraints[i].First = first /\ constraints[i].Second = second

\* a construction that leaves first -> second in place next to the inspection
RedirectedKeepingDirect(acc, first, second, relationship) ==
    Append(acc, Edge(first, second, relationship))

\* the edges appended for one baseline or rework edge first -> second:
\* through the QI companion of first when it has one, direct otherwise
Redirected(acc, first, second, relationship) ==
    IF HasQI(first)
    THEN LET qi_task == QIOf(first)
             withQI == IF ~HasEdge(acc, first, qi_task)
                       THEN Append(acc, Edge(first, qi_task, FS)) ELSE acc
         IN Append(withQI, Edge(qi_task, second, relationship))
    ELSE Append(acc, Edge(first, second, relationship))

\* 1. baseline constraints with QI redirection, invalid ones filtered out
RECURSIVE BaselineEdges(_, _)
BaselineEdges(i, acc) ==
    IF i > Len(precedence_constraints) THEN acc
    ELSE LET c == precedence_constraints[i]
         IN IF c.First \notin DOMAIN tasks \/ c.Second \notin DOMAIN tasks
            THEN BaselineEdges(i + 1, acc)
            ELSE BaselineEdges(i + 1, Redirected(acc, c.First, c.Second, c.Relationship))

\* 2. late part constraints
RECURSIVE LatePartEdges(_, _)
LatePartEdges(i, acc) ==
    IF i > Len(late_part_constraints) THEN acc
    ELSE LET c == late_part_constraints[i]
         IN IF c.Second \notin DOMAIN tasks
            THEN LatePartEdges(i + 1, acc)
            ELSE LatePartEdges(i + 1, Append(acc, Edge(c.First, c.Second, FLS)))

\* 3. rework constraints, through the QI of the rework task
RECURSIVE ReworkEdges(_, _)
ReworkEdges(i, acc) ==
    IF i > Len(rework_constraints) THEN acc
    ELSE LET c == rework_constraints[i]
         IN IF c.Second \notin DOMAIN tasks /\ c.Second \notin rework_tasks
            THEN ReworkEdges(i + 1, acc)
            ELSE ReworkEdges(i + 1, Redirected(acc, c.First, c.Second, c.Relationship))

\* a builder that leaves out step 4
MissingQIEdgesNone(i, acc) == acc

\* 4. any QI constraint that was not already added
RECURSIVE MissingQIEdges(_, _)
MissingQIEdges(i, acc) ==
    IF i > Len(quality_requirements) THEN acc
    ELSE LET q == quality_requirements[i]
         IN IF ~HasEdge(acc, q.primary, q.qi)
            THEN MissingQIEdges(i + 1, Append(acc, Edge(q.primary, q.qi, FS)))
            ELSE MissingQIEdges(i + 1, acc)

build_dynamic_dependencies ==
    MissingQIEdges(1, ReworkEdges(1, LatePartEdges(1, BaselineEdges(1, <<>>))))

\* the dependency graph of schedule_tasks: every relationship makes Second
\* depend on First
dependencies(task) ==
    {c.First : c \in {d \in Range(build_dynamic_dependencies) :
                         d.Second = task /\ d.Relationship \in Relationships}}
dependents(task) ==
    {c.Second : c \in {d \in Range(build_dynamic_dependencies) :
                          d.First = task /\ d.Relationship \in Relationships}}

all_tasks == DOMAIN tasks
total_tasks == Cardinality(all_tasks)

-----------------------------------------------------------------------------
(* DAG validation (validate_dag)                                           *)

graph(node) == {c.Second : c \in {d \in Range(build_dynamic_dependencies) : d.First = node}}
all_tasks_in_constraints ==
    {c.First : c \in Range(build_dynamic_dependencies)} \cup
    {c.Second : c \in Range(build_dynamic_dependencies)}

\* has_cycle_dfs on d = [visited, rec_stack, found]: the neighbours of node
\* are taken in the order given by the recursion on the set todo
RECURSIVE has_cycle_dfs(_, _)
RECURSIVE VisitNeighbours(_, _)
has_cycle_dfs(node, d) ==
    LET entered == [d EXCEPT !.visited = @ \cup {node}, !.rec_stack = @ \cup {node}]
        after == VisitNeighbours(graph(node), entered)
    IN IF after.found THEN after
       ELSE [after EXCEPT !.rec_stack = @ \ {node}]
\* a search that takes every neighbour visited before for a cycle
RECURSIVE VisitNeighboursAnyVisited(_, _)
VisitNeighboursAnyVisited(todo, d) ==
    IF todo = {} \/ d.found THEN d
    ELSE LET neighbor == CHOOSE n \in todo : TRUE
             next == IF neighbor \notin d.visited THEN has_cycle_dfs(neighbor, d)
                     ELSE [d EXCEPT !.found = TRUE]
         IN VisitNeighboursAnyVisited(todo \ {neighbor}, next)

VisitNeighbours(todo, d) ==
    IF todo = {} \/ d.found THEN d
    ELSE LET neighbor == CHOOSE n \in todo : TRUE
             next == IF neighbor \notin d.visited THEN has_cycle_dfs(neighbor, d)
                     ELSE IF neighbor \in d.rec_stack THEN [d EXCEPT !.found = TRUE]
                     ELSE d
         IN VisitNeighbours(todo \ {neighbor}, next)

\* the loop "for node in all_tasks_in_constraints", a fresh rec_stack per root
RECURSIVE CheckForCycles(_, _)
CheckForCycles(todo, visited) ==
    IF todo = {} THEN FALSE
    ELSE LET node == CHOOSE n \in todo : TRUE
         IN IF node \in visited THEN CheckForCycles(todo \ {node}, visited)
            ELSE LET r == has_cycle_dfs(node, [visited |-> visited, rec_stack |-> {},
                                               found |-> FALSE])
                 IN IF r.found THEN TRUE
                    ELSE CheckForCycles(todo \ {node}, r.visited)

validate_dag ==
    IF all_tasks_in_constraints \ DOMAIN tasks # {} THEN FALSE
    ELSE IF CheckForCycles(all_tasks_in_constraints, {}) THEN FALSE
    ELSE TRUE

-----------------------------------------------------------------------------
(* Priority (calculate_critical_path_length, calculate_task_priority)      *)

PriorityScale == 10

\* successors followed by get_path_length: "if successor in self.tasks"
PathSuccessors(task) == graph(task) \cap DOMAIN tasks

RECURSIVE ReachableFrom(_)
ReachableFrom(S) ==
    LET more == S \cup UNION {PathSuccessors(t) : t \in S}
    IN IF more = S THEN S ELSE ReachableFrom(more)

\* get_path_length never returns from a task that reaches a cycle: the
\* recursion ends in RecursionError
PathRecursionError(task) ==
    \E u \in ReachableFrom({task}) : u \in ReachableFrom(PathSuccessors(u))

RECURSIVE get_path_length(_)
get_path_length(task) ==
    LET succ == PathSuccessors(task)
        max_successor_path ==
            IF succ = {} THEN 0
            ELSE LET lens == {get_path_length(s) : s \in succ}
                 IN CHOOSE m \in lens : \A l \in lens : l <= m
    IN tasks[task].duration + max_successor_path

calculate_critical_path_length(task_id) == get_path_length(task_id)

\* (a - b).days for datetimes a, b: the floor of the difference in days
DaysBetween(a, b) == (a - b) \div MinutesPerDay

NoDeliveryPriority == 999999

\* TRUE when calculate_task_priority(task_id) raises instead of returning
PriorityRaises(task_id) ==
    /\ task_id \notin late_part_tasks
    /\ task_id \notin quality_inspections
    /\ task_id \notin rework_tasks
    /\ tasks[task_id].product_line \in DOMAIN delivery_dates
    /\ PathRecursionError(task_id)

\* the priority key, in tenths
calculate_task_priority(task_id) ==
    IF task_id \in late_part_tasks THEN (0 - 2000) * PriorityScale
    ELSE IF task_id \in quality_inspections THEN (0 - 1000) * PriorityScale
    ELSE IF task_id \in rework_tasks THEN (0 - 500) * PriorityScale
    ELSE LET product_line == tasks[task_id].product_line
         IN IF product_line \notin DOMAIN delivery_dates
            THEN NoDeliveryPriority * PriorityScale
            ELSE LET days_to_delivery == DaysBetween(delivery_dates[product_line], now)
                     critical_path_length == calculate_critical_path_length(task_id)
                     dependent_count ==
                         Cardinality({i \in DOMAIN build_dynamic_dependencies :
                                         build_dynamic_dependencies[i].First = task_id})
                     duration == tasks[task_id].duration
                 IN (100 - days_to_delivery) * 10 * PriorityScale
                    + (10000 - critical_path_length) * 5 * PriorityScale
                    + (100 - dependent_count) * 3 * PriorityScale
                    + (100 * PriorityScale - duration) * 2

-----------------------------------------------------------------------------
(* The ready heap                                                          *)

\* Python's order on the instance ids (str) that occur in the inputs
TaskIdOrder == <<"A_1", "A_10001", "A_10060", "A_2", "A_3", "A_50", "A_51", "A_60",
                 "B_1", "B_10001", "B_2">>
IdRank(task_id) == CHOOSE i \in DOMAIN TaskIdOrder : TaskIdOrder[i] = task_id

\* tuple comparison (priority, task_id) <= (priority, task_id)
EntryLE(a, b) ==
    \/ a.priority < b.priority
    \/ a.priority = b.priority /\ IdRank(a.task) <= IdRank(b.task)

\* index of the entry returned by heapq.heappop
HeapMinIndex(heap) ==
    CHOOSE i \in DOMAIN heap :
        /\ \A j \in DOMAIN heap : EntryLE(heap[i], heap[j])
        /\ \A j \in 1 .. i - 1 : ~EntryLE(heap[j], heap[i])

RemoveAt(s, i) == SubSeq(s, 1, i - 1) \o SubSeq(s, i + 1, Len(s))

\* the orders in which a set can be iterated
Orders(S) ==
    {f \in [1 .. Cardinality(S) -> S] : \A x \in S : \E i \in DOMAIN f : f[i] = x}

\* heappush(ready_tasks, (calculate_task_priority(t), t)) for t in order
PushAll(heap, order) ==
    heap \o [i \in DOMAIN order |->
               [priority |-> calculate_task_priority(order[i]), task |-> order[i]]]

-----------------------------------------------------------------------------
(* One iteration of the scheduling loop (schedule_tasks)                   *)

late_part_delay_days == 1
\* a limit that gives up one failure early
RetryLimitTwo == 3 - 1
RetryLimit == 3
RetryPenalty == 1     \* 0.1, in tenths
IterationFactor == 10
max_iterations == total_tasks * IterationFactor

Max(a, b) == IF a >= b THEN a ELSE b

get_earliest_start_for_late_part(task_id) ==
    IF task_id \notin DOMAIN on_dock_dates THEN StartDate
    ELSE ReplaceTime(on_dock_dates[task_id] + late_part_delay_days * MinutesPerDay,
                     Shift1Start)

IsFinishEqualsStart(dep, task_id) ==
    \E i \in DOMAIN build_dynamic_dependencies :
        /\ build_dynamic_dependencies[i].First = dep
        /\ build_dynamic_dependencies[i].Second = task_id
        /\ build_dynamic_dependencies[i].Relationship = FS

\* a dependency constraint that leaves a gap after a 'Finish = Start'
\* predecessor
DependencyConstraintWithGap(dep, task_id, earliest_start) ==
    LET dep_end == Sched(dep).end_time
    IN IF IsFinishEqualsStart(dep, task_id) THEN dep_end + Tick
       ELSE Max(earliest_start, dep_end)

\* the constraint of one placed predecessor on earliest_start
DependencyConstraint(dep, task_id, earliest_start) ==
    LET dep_end == Sched(dep).end_time
    IN IF IsFinishEqualsStart(dep, task_id) THEN dep_end
       ELSE Max(earliest_start, dep_end)

\* "for dep in dependencies.get(task_id, set())", in the order given
RECURSIVE CheckDependencyConstraints(_, _, _)
CheckDependencyConstraints(task_id, order, earliest_start) ==
    IF order = <<>> THEN earliest_start
    ELSE CheckDependencyConstraints(task_id, Tail(order),
             IF Head(order) \in Scheduled
             THEN DependencyConstraint(Head(order), task_id, earliest_start)
             ELSE earliest_start)

EarliestStart(task_id, order) ==
    LET current_time == StartDate
        from_late_part ==
            IF task_id \in late_part_tasks
            THEN Max(current_time, get_earliest_start_for_late_part(task_id))
            ELSE current_time
    IN CheckDependencyConstraints(task_id, order, from_late_part)

\* scheduled minutes of a team: sum of duration * mechanics_required
TeamLoad(team) ==
    SumSeq([i \in DOMAIN task_schedule |->
              IF task_schedule[i].team = team
              THEN task_schedule[i].duration * task_schedule[i].mechanics_required
              ELSE 0])

assign_quality_team_balanced(shift, mechanics_needed) ==
    LET Works(e) == shift \in Range(e.shifts)
        available_teams == SelectSeq(quality_team_shifts, Works)
        HasCapacity(e) ==
            (IF e.team \in DOMAIN quality_team_capacity
             THEN quality_team_capacity[e.team] ELSE 0) >= mechanics_needed
        team_loads == SelectSeq(available_teams, HasCapacity)
    IN IF team_loads = <<>> THEN None
       ELSE team_loads[CHOOSE i \in DOMAIN team_loads :
                /\ \A j \in DOMAIN team_loads :
                       TeamLoad(team_loads[i].team) <= TeamLoad(team_loads[j].team)
                /\ \A j \in 1 .. i - 1 :
                       TeamLoad(team_loads[j].team) > TeamLoad(team_loads[i].team)].team

NoSlot == [team |-> None, shift |-> None, scheduled_start |-> 0]

\* "for try_shift in ['1st', '2nd', '3rd']" of the quality branch; best.team
\* is None exactly while scheduled_start is None
RECURSIVE TryShifts(_, _, _, _)
TryShifts(i, task_id, earliest_start, best) ==
    IF i > Len(Shifts) THEN best
    ELSE LET try_shift == Shifts[i]
             temp_team == assign_quality_team_balanced(try_shift,
                                                       tasks[task_id].mechanics_required)
         IN IF temp_team = None THEN TryShifts(i + 1, task_id, earliest_start, best)
            ELSE LET r == get_next_working_time_with_capacity(
                              earliest_start, tasks[task_id].product_line, temp_team,
                              tasks[task_id].mechanics_required, tasks[task_id].duration, TRUE)
                 IN IF r.result = "found"
                       /\ (best.team = None \/ r.current_time < best.scheduled_start)
                    THEN TryShifts(i + 1, task_id, earliest_start,
                                   [team |-> temp_team, shift |-> try_shift,
                                    scheduled_start |-> r.current_time])
                    ELSE TryShifts(i + 1, task_id, earliest_start, best)

\* "Find next available working time with capacity": the slot found, or a
\* slot with team None when the task has to be retried
FindSlot(task_id, earliest_start) ==
    IF tasks[task_id].is_quality
    THEN TryShifts(1, task_id, earliest_start, NoSlot)
    ELSE LET r == get_next_working_time_with_capacity(
                      earliest_start, tasks[task_id].product_line, tasks[task_id].team,
                      tasks[task_id].mechanics_required, tasks[task_id].duration, FALSE)
         IN IF r.result = "found"
            THEN [team |-> tasks[task_id].team, shift |-> r.shift,
                  scheduled_start |-> r.current_time]
            ELSE NoSlot

Assignment(task_id, slot) ==
    [task_id |-> task_id,
     start_time |-> slot.scheduled_start,
     end_time |-> slot.scheduled_start + tasks[task_id].duration,
     team |-> slot.team,
     product_line |-> tasks[task_id].product_line,
     duration |-> tasks[task_id].duration,
     mechanics_required |-> tasks[task_id].mechanics_required,
     is_quality |-> tasks[task_id].is_quality,
     task_type |-> tasks[task_id].task_type,
     shift |-> slot.shift]

DoneOnlyScheduled(schedule_ids) == schedule_ids
Done(schedule_ids) == schedule_ids \cup failed_tasks

\* the while condition; retry_count stays 0 < max_retries
LoopCondition ==
    /\ ready_tasks # <<>> \/ scheduled_count < total_tasks
    /\ iteration_count < max_iterations

\* "No ready tasks but ... remain unscheduled": the tasks found newly ready
NeedsRescan == ready_tasks = <<>> /\ scheduled_count + Cardinality(failed_tasks) < total_tasks
\* a loop that never looks for the tasks a failed predecessor has released
newly_ready_rescanNever == {}
newly_ready_rescan ==
    IF NeedsRescan
    THEN {t \in all_tasks : /\ t \notin Scheduled
                            /\ t \notin failed_tasks
                            /\ \A d \in dependencies(t) : d \in Done(Scheduled)}
    ELSE {}

\* "Add newly ready tasks" after task_id was placed
newly_ready_after(task_id) ==
    {d \in dependents(task_id) :
        /\ d \notin Scheduled \cup {task_id}
        /\ d \notin failed_tasks
        /\ \A p \in dependencies(d) : p \in Done(Scheduled \cup {task_id})}

-----------------------------------------------------------------------------
(* Slack, the global priority list and the lateness metrics                *)

Infinity == 999999999
SlackScale == 60      \* slack_hours is kept in minutes
SlackBufferDays == 2
SlackDayMinutes == 480
UnschedulableLateness == 999999

\* all_successors of calculate_slack_time
RECURSIVE AllSuccessors(_)
AllSuccessors(S) ==
    LET more == S \cup UNION {graph(t) : t \in S}
    IN IF more = S THEN S ELSE AllSuccessors(more)

SumDurations(S) ==
    LET RECURSIVE Sum(_)
        Sum(T) == IF T = {} THEN 0
                  ELSE LET t == CHOOSE x \in T : TRUE
                       IN tasks[t].duration + Sum(T \ {t})
    IN Sum(S \cap DOMAIN tasks)

\* slack in minutes; total_successor_duration / (8 * 60) days are
\* total_successor_duration * 1440 / 480 minutes
calculate_slack_time(schedule, task_id) ==
    LET product_line == tasks[task_id].product_line
    IN IF product_line \notin DOMAIN delivery_dates THEN Infinity
       ELSE LET latest_finish == delivery_dates[product_line]
                total_successor_duration == SumDurations(AllSuccessors(graph(task_id)))
                latest_start ==
                    latest_finish
                    - (total_successor_duration * MinutesPerDay) \div SlackDayMinutes
                    - SlackBufferDays * MinutesPerDay
                placed == {i \in DOMAIN schedule : schedule[i].task_id = task_id}
            IN IF placed # {}
               THEN latest_start - schedule[CHOOSE i \in placed : TRUE].start_time
               ELSE 0

\* the priority_score of a list entry is kept in hundredths of a priority key,
\* so that the multipliers of simulate_priority_change are exact
Hundredths == 100
PriorityEntry(schedule, i) ==
    [task_id |-> schedule[i].task_id,
     task_type |-> schedule[i].task_type,
     product_line |-> schedule[i].product_line,
     team |-> schedule[i].team,
     scheduled_start |-> schedule[i].start_time,
     scheduled_end |-> schedule[i].end_time,
     duration_minutes |-> schedule[i].duration,
     mechanics_required |-> schedule[i].mechanics_required,
     slack_hours |-> calculate_slack_time(schedule, schedule[i].task_id),
     priority_score |-> calculate_task_priority(schedule[i].task_id) * Hundredths,
     shift |-> schedule[i].shift,
     global_priority |-> 0]

\* a sort key that forgets the slack
SortKeyByStart(a, b) == a.scheduled_start <= b.scheduled_start

\* the sort key (scheduled_start, slack_hours)
SortKeyLE(a, b) ==
    \/ a.scheduled_start < b.scheduled_start
    \/ a.scheduled_start = b.scheduled_start /\ a.slack_hours <= b.slack_hours

\* list.sort is stable: an entry goes behind every entry whose key is not larger
RECURSIVE InsertStable(_, _)
InsertStable(sorted, e) ==
    IF sorted = <<>> THEN <<e>>
    ELSE LET last == sorted[Len(sorted)]
         IN IF SortKeyLE(last, e) THEN Append(sorted, e)
            ELSE Append(InsertStable(SubSeq(sorted, 1, Len(sorted) - 1), e), last)

RECURSIVE SortStable(_, _)
SortStable(s, sorted) ==
    IF s = <<>> THEN sorted ELSE SortStable(Tail(s), InsertStable(sorted, Head(s)))

\* the list built by generate_global_priority_list from a schedule
PriorityList(schedule) ==
    LET priority_data == [i \in DOMAIN schedule |-> PriorityEntry(schedule, i)]
        sorted == SortStable(priority_data, <<>>)
    IN [i \in DOMAIN sorted |-> [sorted[i] EXCEPT !.global_priority = i]]

\* calculate_lateness_metrics, for one product, on a priority list
ProductEntries(list, product) == {i \in DOMAIN list : list[i].product_line = product}
LastTaskEnd(list, product) ==
    LET ends == {list[i].scheduled_end : i \in ProductEntries(list, product)}
    IN CHOOSE m \in ends : \A e \in ends : e <= m
lateness_days(list, product) ==
    IF ProductEntries(list, product) # {}
    THEN DaysBetween(LastTaskEnd(list, product), delivery_dates[product])
    ELSE UnschedulableLateness
on_time(list, product) ==
    IF ProductEntries(list, product) # {}
    THEN lateness_days(list, product) <= 0
    ELSE FALSE

\* calculate_makespan: working days from the first start to the last end
MakespanFailure == 999999
product_tasks == {tasks[t].product_line : t \in DOMAIN tasks}
WorkingDaysBetween(first_day, last_day) ==
    Cardinality({d \in first_day..last_day :
                    \E product \in product_tasks : is_working_day(Day(d), product)})
calculate_makespan(schedule) ==
    IF schedule = <<>> THEN 0
    ELSE IF Len(schedule) < total_tasks THEN MakespanFailure
    ELSE LET start_time ==
                 CHOOSE m \in {schedule[i].start_time : i \in DOMAIN schedule} :
                     \A i \in DOMAIN schedule : m <= schedule[i].start_time
             end_time ==
                 CHOOSE m \in {schedule[i].end_time : i \in DOMAIN schedule} :
                     \A i \in DOMAIN schedule : schedule[i].end_time <= m
         IN WorkingDaysBetween(DayOf(start_time), DayOf(end_time))

-----------------------------------------------------------------------------
(* Inputs: the loaded tables of small production lines                     *)

MaxRuns == 2
MaxClockTicks == 1
MaxIterations == 3
MaxRequests == 2

ProductA == "Product A"
ProductB == "Product B"

Production(product, team, duration, crew) ==
    [duration |-> duration, team |-> team, mechanics_required |-> crew,
     is_quality |-> FALSE, task_type |-> "Production", product_line |-> product]
LatePart(product, team, duration, crew) ==
    [duration |-> duration, team |-> team, mechanics_required |-> crew,
     is_quality |-> FALSE, task_type |-> "Late Part", product_line |-> product]
Rework(product, team, duration, crew) ==
    [duration |-> duration, team |-> team, mechanics_required |-> crew,
     is_quality |-> FALSE, task_type |-> "Rework", product_line |-> product]
Inspection(product, duration, crew) ==
    [duration |-> duration, team |-> None, mechanics_required |-> crew,
     is_quality |-> TRUE, task_type |-> "Quality Inspection", product_line |-> product]
\* the inspection _load_rework_constraints creates for a rework task
ReworkInspection(product) == Inspection(product, 30, 1)

FullShift == Shift2Start - Shift1Start

BaseInput ==
    [tasks |-> <<>>,
     precedence_constraints |-> <<>>,
     late_part_constraints |-> <<>>,
     rework_constraints |-> <<>>,
     quality_requirements |-> <<>>,
     late_part_tasks |-> {},
     rework_tasks |-> {},
     on_dock_dates |-> <<>>,
     team_shifts |-> ("M1" :> <<"1st">>) @@ ("M2" :> <<"1st">>),
     quality_team_shifts |-> <<[team |-> "Q1", shifts |-> <<"1st">>],
                               [team |-> "Q2", shifts |-> <<"2nd">>]>>,
     delivery_dates |-> (ProductA :> Day(4)) @@ (ProductB :> Day(4)),
     holidays |-> (ProductA :> {}) @@ (ProductB :> {}),
     team_capacity |-> ("M1" :> 1) @@ ("M2" :> 1),
     quality_team_capacity |-> ("Q1" :> 1) @@ ("Q2" :> 1)]

\* two predecessors of one task, every mix of relations
JoinInputs ==
    {[BaseInput EXCEPT
        !.tasks = ("A_1" :> Production(ProductA, "M1", d1, 1))
                  @@ ("A_2" :> Production(ProductA, "M2", Tick, 1))
                  @@ ("A_3" :> Production(ProductA, "M1", Tick, 1)),
        !.precedence_constraints = <<Edge("A_1", "A_3", r1), Edge("A_2", "A_3", r2)>>,
        !.team_capacity = ("M1" :> c) @@ ("M2" :> 1)]
     : r1 \in Relationships, r2 \in Relationships, d1 \in {Tick, 2 * Tick}, c \in {1, 2}}

\* a chain whose first task is inspected, alone or next to a second product
\* that is inspected too
InspectionInputs ==
    {[BaseInput EXCEPT
        !.tasks = IF withB
                  THEN ("A_1" :> Production(ProductA, "M1", d1, 1))
                       @@ ("A_2" :> Production(ProductA, "M1", 2 * Tick, 1))
                       @@ ("A_10001" :> Inspection(ProductA, Tick, qc))
                       @@ ("B_1" :> Production(ProductB, "M2", d1, 1))
                       @@ ("B_10001" :> Inspection(ProductB, Tick, 1))
                  ELSE ("A_1" :> Production(ProductA, "M1", d1, 1))
                       @@ ("A_2" :> Production(ProductA, "M1", 2 * Tick, 1))
                       @@ ("A_10001" :> Inspection(ProductA, Tick, qc)),
        !.precedence_constraints = <<Edge("A_1", "A_2", r)>>,
        !.quality_requirements =
            IF withB THEN <<[primary |-> "A_1", qi |-> "A_10001"],
                            [primary |-> "B_1", qi |-> "B_10001"]>>
            ELSE <<[primary |-> "A_1", qi |-> "A_10001"]>>,
        !.quality_team_capacity = ("Q1" :> q1) @@ ("Q2" :> 1)]
     : r \in Relationships, d1 \in {2 * Tick, FullShift}, qc \in {1, 2},
       q1 \in {1, 2}, withB \in BOOLEAN}

\* a late part gating a task, alone or behind an inspected rework task
LatePartInputs ==
    {[BaseInput EXCEPT
        !.tasks = ("A_50" :> LatePart(ProductA, "M1", 2 * Tick, 1))
                  @@ ("A_2" :> Production(ProductA, "M1", 2 * Tick, 1)),
        !.late_part_constraints = <<Edge("A_50", "A_2", FLS)>>,
        !.late_part_tasks = {"A_50"},
        !.on_dock_dates = ("A_50" :> Day(od))]
     : od \in {5, 7}}
    \cup
    {[BaseInput EXCEPT
        !.tasks = ("A_50" :> LatePart(ProductA, "M1", 2 * Tick, 1))
                  @@ ("A_2" :> Production(ProductA, "M1", 2 * Tick, 1))
                  @@ ("A_60" :> Rework(ProductA, "M2", Tick, 1))
                  @@ ("A_10060" :> ReworkInspection(ProductA)),
        !.late_part_constraints = <<Edge("A_50", "A_2", FLS)>>,
        !.late_part_tasks = {"A_50"},
        !.on_dock_dates = ("A_50" :> Day(od)),
        !.rework_constraints = <<Edge("A_60", "A_50", rr)>>,
        !.rework_tasks = {"A_60"},
        !.quality_requirements = <<[primary |-> "A_60", qi |-> "A_10060"]>>]
     : od \in {5, 7}, rr \in Relationships}

\* graphs with a directed cycle
CycleTasks ==
    ("A_1" :> Production(ProductA, "M1", Tick, 1))
    @@ ("A_2" :> Production(ProductA, "M1", Tick, 1))
    @@ ("A_3" :> Production(ProductA, "M1", Tick, 1))
CycleInputs ==
    {[BaseInput EXCEPT
        !.tasks = CycleTasks,
        !.precedence_constraints = <<Edge("A_1", "A_2", FLS), Edge("A_2", "A_1", FLS)>>],
     [BaseInput EXCEPT
        !.tasks = CycleTasks,
        !.precedence_constraints = <<Edge("A_3", "A_1", FLS), Edge("A_1", "A_2", FLS),
                                     Edge("A_2", "A_1", FLS)>>],
     [BaseInput EXCEPT
        !.tasks = CycleTasks @@ ("A_50" :> LatePart(ProductA, "M1", Tick, 1)),
        !.precedence_constraints = <<Edge("A_3", "A_1", FLS), Edge("A_1", "A_2", FLS),
                                     Edge("A_2", "A_1", FLS)>>,
        !.late_part_constraints = <<Edge("A_50", "A_3", FLS)>>,
        !.late_part_tasks = {"A_50"},
        !.on_dock_dates = ("A_50" :> Day(3))]}

\* two products on one team, crews of one and two people
ContentionInputs ==
    {[BaseInput EXCEPT
        !.tasks = ("A_1" :> Production(ProductA, "M1", d, 1))
                  @@ ("A_2" :> Production(ProductA, "M1", d, c2))
                  @@ ("B_1" :> Production(ProductB, "M1", 2 * Tick, 1)),
        !.precedence_constraints = IF chain THEN <<Edge("A_1", "A_2", FLS)>> ELSE <<>>,
        !.team_capacity = ("M1" :> c) @@ ("M2" :> 1)]
     : d \in {2 * Tick, FullShift}, c2 \in {1, 2}, c \in {1, 2}, chain \in BOOLEAN}

\* crews larger than the whole team: nothing, or only a part, can be placed
UnderstaffedInputs ==
    {[BaseInput EXCEPT
        !.tasks = ("A_1" :> Production(ProductA, "M1", Tick, 2))
                  @@ ("A_2" :> Production(ProductA, "M1", Tick, c2))]
     : c2 \in {1, 2}}

\* a chain 1 -> 2 whose first task is inspected, one quality team
InspectedChainInput ==
    [BaseInput EXCEPT
        !.tasks = ("A_1" :> Production(ProductA, "M1", 2 * Tick, 1))
                  @@ ("A_2" :> Production(ProductA, "M1", 2 * Tick, 1))
                  @@ ("A_10001" :> Inspection(ProductA, Tick, 1)),
        !.precedence_constraints = <<Edge("A_1", "A_2", FLS)>>,
        !.quality_requirements = <<[primary |-> "A_1", qi |-> "A_10001"]>>,
        !.quality_team_shifts = <<[team |-> "Q1", shifts |-> <<"1st">>]>>,
        !.quality_team_capacity = ("Q1" :> 1)]

\* a late part 50, on dock on Saturday 2025-08-23, gating task 51
LatePartGateInput ==
    [BaseInput EXCEPT
        !.tasks = ("A_50" :> LatePart(ProductA, "M1", 2 * Tick, 1))
                  @@ ("A_51" :> Production(ProductA, "M1", 2 * Tick, 1)),
        !.late_part_constraints = <<Edge("A_50", "A_51", FLS)>>,
        !.late_part_tasks = {"A_50"},
        !.on_dock_dates = ("A_50" :> Day(5))]

\* a task with one long successor next to a task with two short ones: the
\* first has the longer critical path, the second the smaller slack
FanOutInput ==
    [BaseInput EXCEPT
        !.tasks = ("A_1" :> Production(ProductA, "M1", Tick, 1))
                  @@ ("A_2" :> Production(ProductA, "M1", 3 * Tick, 1))
                  @@ ("A_3" :> Production(ProductA, "M2", Tick, 1))
                  @@ ("A_50" :> Production(ProductA, "M2", 2 * Tick, 1))
                  @@ ("A_51" :> Production(ProductA, "M2", 2 * Tick, 1)),
        !.precedence_constraints = <<Edge("A_1", "A_2", FLS), Edge("A_3", "A_50", FLS),
                                     Edge("A_3", "A_51", FLS)>>]

\* an inspected task with two successors, under different relations
InspectedFanOutInput ==
    [BaseInput EXCEPT
        !.tasks = ("A_1" :> Production(ProductA, "M1", Tick, 1))
                  @@ ("A_2" :> Production(ProductA, "M1", Tick, 1))
                  @@ ("A_3" :> Production(ProductA, "M2", Tick, 1))
                  @@ ("A_10001" :> Inspection(ProductA, Tick, 1)),
        !.precedence_constraints = <<Edge("A_1", "A_2", FLS), Edge("A_1", "A_3", SLS)>>,
        !.quality_requirements = <<[primary |-> "A_1", qi |-> "A_10001"]>>]

\* a late part row and a rework row of the relationship tables whose task
\* has no row in the task detail tables: the constraint is loaded, the task
\* is not created
OrphanInputs ==
    {[BaseInput EXCEPT
        !.tasks = ("A_1" :> Production(ProductA, "M1", Tick, 1))
                  @@ ("A_2" :> Production(ProductA, "M1", Tick, 1)),
        !.late_part_constraints = <<Edge("A_50", "A_2", FLS)>>,
        !.late_part_tasks = {"A_50"},
        !.on_dock_dates = ("A_50" :> Day(5))],
     [BaseInput EXCEPT
        !.tasks = ("A_1" :> Production(ProductA, "M1", Tick, 1))
                  @@ ("A_2" :> Production(ProductA, "M1", Tick, 1)),
        !.rework_constraints = <<Edge("A_60", "A_2", FLS)>>,
        !.rework_tasks = {"A_60"}]}

\* a task that can never be staffed in front of a join and in front of a chain
FailedPredecessorInputs ==
    {[BaseInput EXCEPT
        !.tasks = ("A_1" :> Production(ProductA, "M1", Tick, 2))
                  @@ ("A_2" :> Production(ProductA, "M2", Tick, 1))
                  @@ ("A_3" :> Production(ProductA, "M2", Tick, c3)),
        !.precedence_constraints =
            IF join THEN <<Edge("A_1", "A_3", r), Edge("A_2", "A_3", FLS)>>
            ELSE <<Edge("A_1", "A_2", r), Edge("A_2", "A_3", FLS)>>]
     : r \in {FLS, FS}, join \in BOOLEAN, c3 \in {1, 2}}

\* every shift set, short and long tasks, holidays
ShiftInputs ==
    {[BaseInput EXCEPT
        !.tasks = ("A_1" :> Production(ProductA, "M1", d, 1))
                  @@ ("A_2" :> Production(ProductA, "M1", Tick, 1)),
        !.precedence_constraints = <<Edge("A_1", "A_2", FS)>>,
        !.team_shifts = ("M1" :> sh) @@ ("M2" :> <<"1st">>),
        !.holidays = (ProductA :> h) @@ (ProductB :> {})]
     : d \in {Tick, 4 * Tick, FullShift + Tick},
       sh \in {<<"1st">>, <<"2nd">>, <<"3rd">>, <<"1st", "2nd">>, <<"1st", "2nd", "3rd">>},
       h \in {{}, {4}, {7}}}

\* a production task of 167 hours next to a rework task that is ready at once
LongTaskInput ==
    [BaseInput EXCEPT
        !.tasks = ("A_1" :> Production(ProductA, "M1", 334 * Tick, 1))
                  @@ ("A_2" :> Production(ProductA, "M2", Tick, 1))
                  @@ ("A_60" :> Rework(ProductA, "M2", Tick, 1))
                  @@ ("A_10060" :> ReworkInspection(ProductA)),
        !.rework_constraints = <<Edge("A_60", "A_2", FLS)>>,
        !.rework_tasks = {"A_60"},
        !.quality_requirements = <<[primary |-> "A_60", qi |-> "A_10060"]>>]

Inputs == JoinInputs \cup InspectionInputs \cup LatePartInputs \cup CycleInputs
          \cup ContentionInputs \cup ShiftInputs \cup UnderstaffedInputs
          \cup {InspectedChainInput, LatePartGateInput, FanOutInput, InspectedFanOutInput,
                LongTaskInput} \cup OrphanInputs
          \cup FailedPredecessorInputs

NoPrev == [valid |-> FALSE, task_schedule |-> <<>>, global_priority_list |-> <<>>,
           team_capacity |-> <<>>, quality_team_capacity |-> <<>>]

\* ---- the optimizer locals before any optimizer is called ----
\* best_config = None
NoConfig == [mechanic |-> <<>>, quality |-> <<>>]

NoResult == [config |-> NoConfig, total_workforce |-> 0, makespan |-> 0,
             metrics |-> <<>>, placed |-> 0, max_deviation |-> 0,
             max_lateness |-> 0, total_lateness |-> 0]
NoEvidence == [placed |-> 0, metrics |-> <<>>]
\* no optimizer is running
OptOff ==
    [kind |-> "none", at |-> "off",
     min_mechanics |-> 0, max_mechanics |-> 0, min_quality |-> 0, max_quality |-> 0,
     target_lateness |-> 0, tolerance |-> 0, max_iterations |-> 0,
     current_config |-> NoConfig, test_config |-> NoConfig, candidates |-> <<>>,
     best_config |-> NoConfig, best_total_workforce |-> Infinity,
     best_deviation |-> Infinity, best_max_lateness |-> Infinity,
     best_total_lateness |-> Infinity, previous_max_lateness |-> Infinity,
     previous_total_lateness |-> Infinity, uniform_level |-> 0, iteration |-> 0,
     no_improvement_count |-> 0, iterations_without_improvement |-> 0,
     optimization_iterations |-> 0, improved |-> FALSE, phase1_complete |-> FALSE,
     target_max_lateness |-> 0, target_total10 |-> 0,
     result |-> NoResult,
     \* history kept for the properties
     trials |-> {}, feasible_seen |-> FALSE, within_seen |-> {},
     best_evidence |-> NoEvidence, kept |-> {},
     iteration_start |-> <<>>, unimproved |-> 0,
     \* simulate_priority_change: its two saved copies
     original_schedule |-> <<>>, original_priorities |-> <<>>]

\* the tables after load_data_from_csv
\* src/app.py: the module globals before the first request
Requests == 1 .. MaxRequests
Free == <<>>
initialization_status ==
    [initialized |-> FALSE, initializing |-> FALSE, error |-> FALSE,
     current_scenario |-> "None"]
AppStart ==
    [initialization_status |-> initialization_status,
     initialization_lock |-> Free,
     scenario_results |-> {},
     route |-> [r \in Requests |-> "none"],
     request |-> [r \in Requests |-> "none"],
     thread |-> [r \in Requests |-> "none"]]

Loaded(in) ==
    /\ tasks = in.tasks
    /\ precedence_constraints = in.precedence_constraints
    /\ late_part_constraints = in.late_part_constraints
    /\ rework_constraints = in.rework_constraints
    /\ quality_requirements = in.quality_requirements
    /\ late_part_tasks = in.late_part_tasks
    /\ rework_tasks = in.rework_tasks
    /\ on_dock_dates = in.on_dock_dates
    /\ team_shifts = in.team_shifts
    /\ quality_team_shifts = in.quality_team_shifts
    /\ delivery_dates = in.delivery_dates
    /\ holidays = in.holidays
    /\ team_capacity = in.team_capacity
    /\ quality_team_capacity = in.quality_team_capacity
    /\ original_team_capacity = in.team_capacity
    /\ original_quality_capacity = in.quality_team_capacity

\* the scheduler after construction and loading, before any run
Fresh ==
    /\ task_schedule = <<>>
    /\ global_priority_list = <<>>
    /\ pc = "idle"
    /\ silent_mode = FALSE
    /\ ready_tasks = <<>>
    /\ failed_tasks = {}
    /\ task_retry_counts = [t \in DOMAIN tasks |-> 0]
    /\ scheduled_count = 0
    /\ iteration_count = 0
    /\ now = StartDate
    /\ clock_ticks = 0
    /\ runs = 0
    /\ prev = NoPrev
    /\ opt = OptOff
    /\ app = AppStart

Init ==
    /\ \E in \in Inputs : Loaded(in)
    /\ Fresh

-----------------------------------------------------------------------------
(* Actions                                                                 *)

\* the tasks pushed before the loop: "task not in dependencies"
InitialReadyAll == all_tasks
InitialReady == {t \in all_tasks : dependencies(t) = {}}

\* a run may start: a direct call while the bound on runs allows it, or the
\* call an optimizer has prepared; the optimizers always run silently
MayRun == IF opt.at = "off" THEN runs < MaxRuns ELSE opt.at # "returned"
SilentModes == IF opt.at = "off" THEN BOOLEAN ELSE {TRUE}

\* schedule_tasks up to its loop, when nothing is raised
schedule_tasks_begin ==
    /\ pc = "idle"
    /\ MayRun
    /\ \E silent \in SilentModes :
        /\ silent \/ validate_dag
        /\ \A t \in InitialReady : ~PriorityRaises(t)
        /\ silent_mode' = silent
        /\ \E order \in Orders(InitialReady) : ready_tasks' = PushAll(<<>>, order)
    /\ task_schedule' = <<>>
    /\ failed_tasks' = {}
    /\ task_retry_counts' = [t \in DOMAIN tasks |-> 0]
    /\ scheduled_count' = 0
    /\ iteration_count' = 0
    /\ pc' = "running"
    /\ UNCHANGED <<loaded, app, opt, capacities, global_priority_list, now, clock_ticks, runs, prev>>

\* schedule_tasks raising before its loop: ValueError from the validation,
\* or RecursionError from the priority of an initially ready task
schedule_tasks_raise ==
    /\ pc = "idle"
    /\ MayRun
    /\ \E silent \in SilentModes :
        /\ \/ ~silent /\ ~validate_dag
           \/ \E t \in InitialReady : PriorityRaises(t)
        /\ silent_mode' = silent
    /\ task_schedule' = <<>>
    /\ pc' = "raised"
    /\ UNCHANGED <<loaded, app, opt, capacities, global_priority_list, ready_tasks, failed_tasks,
                   task_retry_counts, scheduled_count, iteration_count, now,
                   clock_ticks, runs, prev>>

\* the rest of generate_global_priority_list once schedule_tasks returned;
\* simulate_priority_change calls schedule_tasks alone
Finish(schedule) ==
    /\ global_priority_list' = IF opt.kind = "simulate" THEN global_priority_list
                               ELSE PriorityList(schedule)
    /\ pc' = "done"
    /\ runs' = IF opt.at = "off" THEN runs + 1 ELSE runs

\* the while condition fails
loop_exit ==
    /\ pc = "running"
    /\ ~LoopCondition
    /\ Finish(task_schedule)
    /\ UNCHANGED <<loaded, app, opt, capacities, task_schedule, locals, now, clock_ticks, prev>>

\* an iteration that finds no ready task and breaks
iteration_break ==
    /\ pc = "running"
    /\ LoopCondition
    /\ ready_tasks = <<>>
    /\ newly_ready_rescan = {}
    /\ iteration_count' = iteration_count + 1
    /\ Finish(task_schedule)
    /\ UNCHANGED <<loaded, app, opt, capacities, task_schedule, silent_mode, ready_tasks,
                   failed_tasks, task_retry_counts, scheduled_count, now, clock_ticks,
                   prev>>

\* the iterations that pop a task: heap is the heap after the rescan
Popped(heap) == heap[HeapMinIndex(heap)]

\* an iteration that places the popped task
iteration_place ==
    /\ pc = "running"
    /\ LoopCondition
    /\ \A t \in newly_ready_rescan : ~PriorityRaises(t)
    /\ \E rescan \in Orders(newly_ready_rescan) :
        LET heap == PushAll(ready_tasks, rescan)
        IN /\ heap # <<>>
           /\ LET task_id == Popped(heap).task
                  rest == RemoveAt(heap, HeapMinIndex(heap))
              IN /\ task_retry_counts[task_id] < RetryLimit
                 /\ \E deps \in Orders(dependencies(task_id)) :
                     LET slot == FindSlot(task_id, EarliestStart(task_id, deps))
                     IN /\ slot.team # None
                        /\ \A t \in newly_ready_after(task_id) : ~PriorityRaises(t)
                        /\ task_schedule' = Append(task_schedule, Assignment(task_id, slot))
                        /\ \E newly_ready \in Orders(newly_ready_after(task_id)) :
                               ready_tasks' = PushAll(rest, newly_ready)
    /\ scheduled_count' = scheduled_count + 1
    /\ iteration_count' = iteration_count + 1
    /\ UNCHANGED <<loaded, app, opt, capacities, global_priority_list, pc, silent_mode,
                   failed_tasks, task_retry_counts, now, clock_ticks, runs, prev>>

\* an iteration whose capacity search fails: requeue, or mark failed
iteration_retry ==
    /\ pc = "running"
    /\ LoopCondition
    /\ \A t \in newly_ready_rescan : ~PriorityRaises(t)
    /\ \E rescan \in Orders(newly_ready_rescan) :
        LET heap == PushAll(ready_tasks, rescan)
        IN /\ heap # <<>>
           /\ LET entry == Popped(heap)
                  task_id == entry.task
                  rest == RemoveAt(heap, HeapMinIndex(heap))
              IN IF task_retry_counts[task_id] >= RetryLimit
                 THEN /\ failed_tasks' = failed_tasks \cup {task_id}
                      /\ ready_tasks' = rest
                      /\ UNCHANGED task_retry_counts
                 ELSE \E deps \in Orders(dependencies(task_id)) :
                        /\ FindSlot(task_id, EarliestStart(task_id, deps)).team = None
                        /\ task_retry_counts' =
                               [task_retry_counts EXCEPT ![task_id] = @ + 1]
                        /\ IF task_retry_counts[task_id] + 1 < RetryLimit
                           THEN /\ ready_tasks' =
                                      Append(rest, [priority |-> entry.priority + RetryPenalty,
                                                    task |-> task_id])
                                /\ UNCHANGED failed_tasks
                           ELSE /\ failed_tasks' = failed_tasks \cup {task_id}
                                /\ ready_tasks' = rest
    /\ iteration_count' = iteration_count + 1
    /\ UNCHANGED <<loaded, app, opt, capacities, task_schedule, global_priority_list, pc,
                   silent_mode, scheduled_count, now, clock_ticks, runs, prev>>

\* an iteration in which calculate_task_priority raises RecursionError for a
\* task that became ready
iteration_raise ==
    /\ pc = "running"
    /\ LoopCondition
    /\ \/ /\ \E t \in newly_ready_rescan : PriorityRaises(t)
          /\ UNCHANGED task_schedule
       \/ /\ \A t \in newly_ready_rescan : ~PriorityRaises(t)
          /\ \E rescan \in Orders(newly_ready_rescan) :
              LET heap == PushAll(ready_tasks, rescan)
              IN /\ heap # <<>>
                 /\ LET task_id == Popped(heap).task
                    IN /\ task_retry_counts[task_id] < RetryLimit
                       /\ \E deps \in Orders(dependencies(task_id)) :
                           LET slot == FindSlot(task_id, EarliestStart(task_id, deps))
                           IN /\ slot.team # None
                              /\ \E t \in newly_ready_after(task_id) : PriorityRaises(t)
                              /\ task_schedule' =
                                     Append(task_schedule, Assignment(task_id, slot))
    /\ pc' = "raised"
    /\ UNCHANGED <<loaded, app, opt, capacities, global_priority_list, locals, now, clock_ticks,
                   runs, prev>>

\* an optimizer applies the configuration of its next trial: the current
\* capacities, or one team reduced by one
TrialConfigurations ==
    {[mechanic |-> team_capacity, quality |-> quality_team_capacity]}
    \cup {[mechanic |-> [team_capacity EXCEPT ![t] = @ - 1],
           quality |-> quality_team_capacity]
          : t \in {x \in DOMAIN team_capacity : team_capacity[x] > 1}}
    \cup {[mechanic |-> team_capacity,
           quality |-> [quality_team_capacity EXCEPT ![t] = @ - 1]]
          : t \in {x \in DOMAIN quality_team_capacity : quality_team_capacity[x] > 1}}

apply_configuration ==
    /\ pc = "done"
    /\ runs < MaxRuns
    /\ \E config \in TrialConfigurations :
        /\ team_capacity' = config.mechanic
        /\ quality_team_capacity' = config.quality
    /\ prev' = [valid |-> TRUE, task_schedule |-> task_schedule,
                global_priority_list |-> global_priority_list,
                team_capacity |-> team_capacity,
                quality_team_capacity |-> quality_team_capacity]
    /\ task_schedule' = <<>>
    /\ pc' = "idle"
    /\ UNCHANGED <<loaded, app, opt, global_priority_list, locals, now, clock_ticks, runs>>

\* the wall clock passes midnight
clock_advance ==
    /\ pc \in {"idle", "running"}
    /\ clock_ticks < MaxClockTicks
    /\ now' = now + MinutesPerDay
    /\ clock_ticks' = clock_ticks + 1
    /\ UNCHANGED <<loaded, app, opt, capacities, task_schedule, global_priority_list, pc, locals,
                   runs, prev>>

-----------------------------------------------------------------------------
(* The capacity optimizers: helpers shared by scenario 2 and scenario 3    *)

\* iteration order of the team dicts and of delivery_dates: the order in
\* which the loader inserted the keys
TeamOrder == <<"M1", "M2", "Q1", "Q2">>
ProductOrder == <<ProductA, ProductB>>
Keys(order, d) == SelectSeq(order, LAMBDA k : k \in DOMAIN d)

Min(a, b) == IF a <= b THEN a ELSE b
Abs(x) == IF x < 0 THEN 0 - x ELSE x
MaxOf(S, default) == IF S = {} THEN default ELSE CHOOSE m \in S : \A x \in S : x <= m
MinOf(S) == CHOOSE m \in S : \A x \in S : m <= x

\* sum(config.values())
SumValues(d) == SumSeq([i \in DOMAIN Keys(TeamOrder, d) |-> d[Keys(TeamOrder, d)[i]]])
TotalWorkforce(config) == SumValues(config.mechanic) + SumValues(config.quality)

\* "for team, capacity in config.items(): self.team_capacity[team] = capacity"
Assigned(capacity, config) ==
    [t \in DOMAIN capacity |-> IF t \in DOMAIN config THEN config[t] ELSE capacity[t]]

\* config[type][team] += delta on a copy
Changed(config, type, team, delta) ==
    IF type = "mechanic"
    THEN [config EXCEPT !.mechanic = [@ EXCEPT ![team] = @ + delta]]
    ELSE [config EXCEPT !.quality = [@ EXCEPT ![team] = @ + delta]]

\* calculate_lateness_metrics after a run: lateness_days of every product
Metrics == [product \in DOMAIN delivery_dates |->
               lateness_days(global_priority_list, product)]
Scheduled_all == ~(Len(task_schedule) < total_tasks)

\* _test_configuration_with_target once its run returned or raised; the
\* tolerance is passed doubled, so that tolerance * 1.5 is an integer
test_configuration_with_target(target_lateness, tolerance2) ==
    /\ pc = "done"
    /\ Scheduled_all
    /\ \A product \in DOMAIN delivery_dates :
        /\ ~(Metrics[product] >= UnschedulableLateness)
        /\ ~(2 * Abs(Metrics[product] - target_lateness) > tolerance2)

\* max_lateness and total_lateness of scenario 3
LatenessValues == {Metrics[product] : product \in
                     {q \in DOMAIN delivery_dates : Metrics[q] < UnschedulableLateness}}
Max_lateness == MaxOf(LatenessValues, 0)
Total_lateness ==
    LET order == Keys(ProductOrder, delivery_dates)
    IN SumSeq([i \in DOMAIN order |->
                 IF Metrics[order[i]] < UnschedulableLateness
                 THEN Max(0, Metrics[order[i]]) ELSE 0])

\* _test_configuration_with_lateness_target once its run returned or raised;
\* target_total_lateness is best_total_lateness * 1.1, passed in tenths
test_configuration_with_lateness_target(target_max_lateness, target_total10) ==
    /\ pc = "done"
    /\ Scheduled_all
    /\ Max_lateness <= target_max_lateness
    /\ 10 * Total_lateness <= target_total10

\* _calculate_team_utilization for one team: utilization is
\* scheduled_minutes / (unit * total_days), kept as the pair
minutes_per_shift == 510
total_days == calculate_makespan(task_schedule)
Concurrent(team) ==
    MaxOf({UsageAt(task_schedule, team, task_schedule[i].start_time) :
             i \in {j \in DOMAIN task_schedule : task_schedule[j].team = team}}, 0)
calculate_team_utilization(team, type) ==
    LET scheduled_minutes ==
            SumSeq([i \in DOMAIN task_schedule |->
                      IF task_schedule[i].team = team
                      THEN task_schedule[i].duration * task_schedule[i].mechanics_required
                      ELSE 0])
        capacity == IF type = "mechanic" THEN team_capacity[team]
                    ELSE quality_team_capacity[team]
        shifts_per_day ==
            IF type = "mechanic"
            THEN (IF team \in DOMAIN team_shifts THEN Len(team_shifts[team]) ELSE 0)
            ELSE (IF team \in QualityTeams THEN Len(QualityShifts(team)) ELSE 0)
    IN [team |-> team, type |-> type, scheduled_minutes |-> scheduled_minutes,
        unit |-> capacity * shifts_per_day * minutes_per_shift,
        max_concurrent |-> Concurrent(team)]

\* "if available_minutes > 0 else 0"
HasAvailable(u) == u.unit > 0 /\ total_days > 0
\* a.utilization < b.utilization (total_days is common to both)
UtilLess(a, b) ==
    LET an == IF HasAvailable(a) THEN a.scheduled_minutes ELSE 0
        ad == IF HasAvailable(a) THEN a.unit ELSE 1
        bn == IF HasAvailable(b) THEN b.scheduled_minutes ELSE 0
        bd == IF HasAvailable(b) THEN b.unit ELSE 1
    IN an * bd < bn * ad
\* u.utilization < num / den
UtilBelow(u, num, den) ==
    IF HasAvailable(u) THEN (den * u.scheduled_minutes) \div (num * u.unit) < total_days
    ELSE 0 < num

\* utilization[type] in dict order, and sorted by utilization (stable)
Utilizations(type) ==
    LET order == Keys(TeamOrder, IF type = "mechanic" THEN team_capacity
                                 ELSE quality_team_capacity)
    IN [i \in DOMAIN order |-> calculate_team_utilization(order[i], type)]
RECURSIVE InsertByUtil(_, _)
InsertByUtil(sorted, u) ==
    IF sorted = <<>> THEN <<u>>
    ELSE LET last == sorted[Len(sorted)]
         IN IF UtilLess(u, last)
            THEN Append(InsertByUtil(SubSeq(sorted, 1, Len(sorted) - 1), u), last)
            ELSE Append(sorted, u)
RECURSIVE SortByUtil(_, _)
SortByUtil(s, sorted) ==
    IF s = <<>> THEN sorted ELSE SortByUtil(Tail(s), InsertByUtil(sorted, Head(s)))

\* _identify_bottleneck_teams: teams whose peak concurrent crew reaches 90 %
\* of their capacity
identify_bottleneck_teams(type) ==
    {team \in {task_schedule[i].team : i \in DOMAIN task_schedule} :
        /\ 10 * Concurrent(team) >= 9 * CapacityOf(team)
        /\ (type = "mechanic") = (team \in DOMAIN team_capacity)}

\* _identify_blocking_teams for the unscheduled tasks
identify_blocking_teams(type) ==
    LET unscheduled_tasks == {t \in DOMAIN tasks : t \notin Scheduled}
    IN IF type = "mechanic"
       THEN {tasks[t].team : t \in {u \in unscheduled_tasks : ~tasks[u].is_quality}}
       ELSE IF \E t \in unscheduled_tasks : tasks[t].is_quality
            THEN DOMAIN quality_team_capacity ELSE {}

\* the first team, in dict order, whose capacity is the minimum
FirstMinimum(config) ==
    LET order == Keys(TeamOrder, config)
        least == MinOf({config[t] : t \in DOMAIN config})
    IN order[MinOf({i \in DOMAIN order : config[order[i]] = least})]

-----------------------------------------------------------------------------
(* The locals of a running optimizer                                       *)

max_no_improvement == 30
max_iterations_without_improvement == 20
MaxOptimizationIterations == 50

\* what the run that has just returned shows
Evidence == [placed |-> Len(task_schedule), metrics |-> Metrics]

\* the configuration an optimizer applies before the run at o.at
Configuration(o) ==
    CASE o.at \in {"jit_phase1", "jit_phase2", "min_phase1"} -> o.current_config
      [] o.at \in {"jit_reduce", "jit_early", "min_reduce"} -> o.test_config
      [] OTHER -> o.best_config

\* an exit that leaves the last configuration in place
RestoredNothing(capacity, original) == capacity

\* "for team, capacity in original_team.items(): self.team_capacity[team] = capacity"
Restored(capacity, original) == Assigned(capacity, original)

\* the optimizer goes on as o: it returns with the capacities restored, or
\* applies the configuration of its next run and clears the schedule
Proceed(o) ==
    /\ IF o.at = "returned"
       THEN /\ opt' = o
            /\ team_capacity' = Restored(team_capacity, original_team_capacity)
            /\ quality_team_capacity' =
                   Restored(quality_team_capacity, original_quality_capacity)
            /\ UNCHANGED <<task_schedule, pc>>
       ELSE /\ opt' = [o EXCEPT !.trials = @ \cup {Configuration(o)}]
            /\ team_capacity' = Assigned(team_capacity, Configuration(o).mechanic)
            /\ quality_team_capacity' =
                   Assigned(quality_team_capacity, Configuration(o).quality)
            /\ task_schedule' = <<>>
            /\ pc' = "idle"
    /\ UNCHANGED <<loaded, app, global_priority_list, locals, now, clock_ticks, runs, prev>>

\* a run called by the optimizer has returned or raised
Returned(site) == opt.at = site /\ pc \in {"done", "raised"}

-----------------------------------------------------------------------------
(* scenario_2_just_in_time_optimization                                    *)

UniformConfig(level, max_quality) ==
    [mechanic |-> [t \in DOMAIN original_team_capacity |-> level],
     quality |-> [t \in DOMAIN original_quality_capacity |->
                     Min(level \div 5 + 1, max_quality)]]
MidpointConfig(o) ==
    [mechanic |-> [t \in DOMAIN original_team_capacity |->
                      (o.min_mechanics + o.max_mechanics) \div 2],
     quality |-> [t \in DOMAIN original_quality_capacity |->
                     (o.min_quality + o.max_quality) \div 2]]

\* the run was feasible for scenario 2: everything placed, every product
\* within the tolerance
JitFeasible(o) == test_configuration_with_target(o.target_lateness, 2 * o.tolerance)
Observed(o) == [o EXCEPT !.feasible_seen = @ \/ JitFeasible(o)]

\* history for the properties: what an iteration of Phase 2 can improve (the
\* capacities to try next and the best recorded so far), as it stood when the
\* iteration began, and the number of consecutive iterations that ended with
\* it unchanged
Improvable(o) == <<o.current_config, o.best_config, o.best_total_workforce, o.best_deviation>>
Counted(o) ==
    [o EXCEPT !.unimproved = IF /\ o.at \in {"jit_phase2", "jit_reduce", "jit_early"}
                                /\ Improvable(o) = o.iteration_start
                             THEN @ + 1 ELSE 0,
              !.iteration_start = Improvable(o)]

\* the head of the Phase 2 loop, then the exit with None or Phase 3
JitLoopHead(o) ==
    IF o.iteration < o.max_iterations /\ o.no_improvement_count < max_no_improvement
    THEN [Counted(o) EXCEPT !.at = "jit_phase2", !.iteration = @ + 1, !.improved = FALSE]
    ELSE IF o.best_config = NoConfig THEN [Counted(o) EXCEPT !.at = "returned"]
    ELSE [Counted(o) EXCEPT !.at = "jit_final"]

\* the head of the Phase 1 loop
JitPhase1Head(o) ==
    IF o.uniform_level <= o.max_mechanics /\ ~o.phase1_complete
    THEN [o EXCEPT !.at = "jit_phase1",
                   !.current_config = UniformConfig(o.uniform_level, o.max_quality)]
    ELSE IF ~o.phase1_complete
         THEN JitLoopHead([o EXCEPT !.current_config = MidpointConfig(o)])
         ELSE JitLoopHead(o)

\* "if not improved: no_improvement_count += 1 else: no_improvement_count = 0"
JitEndOfIteration(o) ==
    JitLoopHead([o EXCEPT !.no_improvement_count = IF o.improved THEN 0 ELSE @ + 1])

\* the exception branch: the first team of minimum capacity grows by one
JitAfterException(o) ==
    JitLoopHead([o EXCEPT !.current_config =
                    Changed(@, "mechanic", FirstMinimum(@.mechanic), 1)])

\* not everything was placed: one bottleneck team below its maximum grows by
\* one, a mechanic team if there is one, else a quality team; bottlenecks
\* are sets, so any of them can come first
JitAfterUnscheduled(o) ==
    LET mechanic == {t \in identify_bottleneck_teams("mechanic") :
                        o.current_config.mechanic[t] < o.max_mechanics}
        quality == {t \in identify_bottleneck_teams("quality") :
                       o.current_config.quality[t] < o.max_quality}
    IN IF mechanic # {}
       THEN {JitLoopHead([o EXCEPT !.current_config = Changed(@, "mechanic", t, 1),
                                   !.improved = TRUE]) : t \in mechanic}
       ELSE IF quality # {}
       THEN {JitLoopHead([o EXCEPT !.current_config = Changed(@, "quality", t, 1),
                                   !.improved = TRUE]) : t \in quality}
       ELSE {JitLoopHead(o)}

\* max_deviation of an evaluation that is within the tolerance
MaxDeviation(o) ==
    MaxOf({Abs(Metrics[product] - o.target_lateness) : product \in DOMAIN delivery_dates}, 0)

\* the least utilized team that is above its minimum: mechanic teams first,
\* then quality teams, a later team only when strictly less utilized
RECURSIVE LeastUtilized(_, _, _)
LeastUtilized(us, o, least) ==
    IF us = <<>> THEN least
    ELSE LET u == Head(us)
             above == IF u.type = "mechanic"
                      THEN o.current_config.mechanic[u.team] > o.min_mechanics
                      ELSE o.current_config.quality[u.team] > o.min_quality
             less == IF least = <<>> THEN UtilBelow(u, 100, 1)
                     ELSE UtilLess(u, least[1])
         IN LeastUtilized(Tail(us), o, IF less /\ above THEN <<u>> ELSE least)

\* within the tolerance: record a new best, then try the least utilized team
\* with one person less
JitWithinTolerance(o) ==
    LET total_workforce == TotalWorkforce(o.current_config)
        max_deviation == MaxDeviation(o)
        seen == [o EXCEPT !.within_seen = @ \cup {<<total_workforce, max_deviation>>}]
        o1 == IF total_workforce < o.best_total_workforce
                 \/ max_deviation < o.best_deviation
              THEN [seen EXCEPT !.best_config = o.current_config,
                                !.best_total_workforce = total_workforce,
                                !.best_deviation = max_deviation,
                                !.best_evidence = Evidence,
                                !.improved = TRUE]
              ELSE seen
        least == LeastUtilized(Utilizations("mechanic") \o Utilizations("quality"),
                               o, <<>>)
    IN IF least # <<>> /\ UtilBelow(least[1], 50, 1)
       THEN [o1 EXCEPT !.at = "jit_reduce",
                       !.test_config =
                           Changed(o.current_config, least[1].type, least[1].team, 0 - 1)]
       ELSE JitEndOfIteration(o1)

\* adjustments_needed, sorted by |deviation|, largest first (stable)
RECURSIVE LargestDeviation(_, _)
LargestDeviation(adjustments, largest) ==
    IF adjustments = <<>> THEN largest
    ELSE LargestDeviation(Tail(adjustments),
                          IF largest = <<>> \/ Abs(Head(adjustments).deviation)
                                               > Abs(largest[1].deviation)
                          THEN <<Head(adjustments)>> ELSE largest)

\* the team on which the product spends most minutes, the first one found
\* in the priority list among equals
most_used_team(product) ==
    LET entries == SelectSeq(global_priority_list, LAMBDA e : e.product_line = product)
        usage(team) == SumSeq([i \in DOMAIN entries |->
                                 IF entries[i].team = team
                                 THEN entries[i].duration_minutes ELSE 0])
        most == MaxOf({usage(entries[i].team) : i \in DOMAIN entries}, 0)
    IN entries[MinOf({i \in DOMAIN entries : usage(entries[i].team) = most})].team

\* beyond the tolerance: grow the most used team of the worst product, or
\* try the mechanic teams with one person less, least utilized first
JitOutsideTolerance(o) ==
    LET order == Keys(ProductOrder, delivery_dates)
        adjustments_needed ==
            SelectSeq([i \in DOMAIN order |->
                         [product |-> order[i],
                          lateness |-> Metrics[order[i]],
                          deviation |-> Metrics[order[i]] - o.target_lateness]],
                      LAMBDA a : /\ ~(a.lateness >= UnschedulableLateness)
                                 /\ Abs(a.deviation) > o.tolerance)
        worst == LargestDeviation(adjustments_needed, <<>>)
    IN IF worst = <<>> THEN JitEndOfIteration(o)
       ELSE IF worst[1].deviation > 0
       THEN LET team == most_used_team(worst[1].product)
            IN IF team \in DOMAIN o.current_config.mechanic
               THEN IF o.current_config.mechanic[team] < o.max_mechanics
                    THEN JitEndOfIteration(
                             [o EXCEPT !.current_config = Changed(@, "mechanic", team, 1),
                                       !.improved = TRUE])
                    ELSE JitEndOfIteration(o)
               ELSE IF team \in DOMAIN o.current_config.quality
                       /\ o.current_config.quality[team] < o.max_quality
               THEN JitEndOfIteration(
                        [o EXCEPT !.current_config = Changed(@, "quality", team, 1),
                                  !.improved = TRUE])
               ELSE JitEndOfIteration(o)
       ELSE IF worst[1].deviation < 0 - (o.tolerance * 2)
       THEN LET candidates ==
                    SelectSeq(SortByUtil(Utilizations("mechanic"), <<>>),
                              LAMBDA u : o.current_config.mechanic[u.team]
                                         > o.min_mechanics)
            IN IF candidates = <<>> THEN JitEndOfIteration(o)
               ELSE [o EXCEPT !.at = "jit_early",
                              !.test_config = Changed(o.current_config, "mechanic",
                                                      Head(candidates).team, 0 - 1),
                              !.candidates = Tail(candidates)]
       ELSE JitEndOfIteration(o)

\* a call that allows two iterations more than max_no_improvement
JitLongRun ==
    [min_mechanics |-> 1, max_mechanics |-> 1, min_quality |-> 1, max_quality |-> 1,
     target_lateness |-> 0, tolerance |-> 0, max_iterations |-> max_no_improvement + 2]

\* scenario 2 is called: Phase 1 tests its first uniform level
JitParameters ==
    {[min_mechanics |-> 1, max_mechanics |-> mm, min_quality |-> 1, max_quality |-> 1,
      target_lateness |-> 0, tolerance |-> tol, max_iterations |-> it]
     : mm \in {1, 2, 3}, tol \in {0, 2}, it \in {1, MaxIterations}} \cup {JitLongRun}

Started(kind, p) ==
    [OptOff EXCEPT !.kind = kind,
                   !.min_mechanics = p.min_mechanics, !.max_mechanics = p.max_mechanics,
                   !.min_quality = p.min_quality, !.max_quality = p.max_quality,
                   !.target_lateness = p.target_lateness, !.tolerance = p.tolerance,
                   !.max_iterations = p.max_iterations,
                   !.uniform_level = p.min_mechanics,
                   !.current_config =
                       [mechanic |-> [t \in DOMAIN original_team_capacity |->
                                         p.min_mechanics],
                        quality |-> [t \in DOMAIN original_quality_capacity |->
                                        p.min_quality]]]

scenario_2_just_in_time_optimization ==
    /\ opt.at = "off"
    /\ pc = "idle"
    /\ runs = 0
    /\ \E p \in JitParameters : Proceed(JitPhase1Head(Started("jit", p)))

\* Phase 1: the test of a uniform level has returned
jit_phase1_tested ==
    /\ Returned("jit_phase1")
    /\ LET o == Observed(opt)
       IN IF JitFeasible(opt)
          THEN Proceed(JitPhase1Head([o EXCEPT !.phase1_complete = TRUE,
                                               !.best_config = o.current_config,
                                               !.best_evidence = Evidence]))
          ELSE Proceed(JitPhase1Head([o EXCEPT !.uniform_level = @ + 1]))

\* Phase 2: the run of the current configuration has returned or raised
jit_phase2_evaluated ==
    /\ Returned("jit_phase2")
    /\ LET o == Observed(opt)
       IN IF pc = "raised" THEN Proceed(JitAfterException(o))
          ELSE IF ~Scheduled_all THEN \E next \in JitAfterUnscheduled(o) : Proceed(next)
          ELSE IF JitFeasible(opt) THEN Proceed(JitWithinTolerance(o))
          ELSE Proceed(JitOutsideTolerance(o))

\* Phase 2: the test of the least utilized team with one person less
jit_reduce_tested ==
    /\ Returned("jit_reduce")
    /\ LET o == Observed(opt)
       IN IF JitFeasible(opt)
          THEN Proceed(JitEndOfIteration([o EXCEPT !.current_config = o.test_config,
                                                   !.improved = TRUE]))
          ELSE Proceed(JitEndOfIteration(o))

\* Phase 2: a test, under 1.5 times the tolerance, of a mechanic team with
\* one person less when a product is far too early
jit_early_tested ==
    /\ Returned("jit_early")
    /\ LET o == Observed(opt)
       IN IF test_configuration_with_target(opt.target_lateness, 3 * opt.tolerance)
          THEN Proceed(JitEndOfIteration([o EXCEPT !.current_config = o.test_config,
                                                   !.improved = TRUE,
                                                   !.candidates = <<>>]))
          ELSE IF o.candidates = <<>> THEN Proceed(JitEndOfIteration(o))
          ELSE Proceed([o EXCEPT !.test_config =
                                     Changed(o.current_config, "mechanic",
                                             Head(o.candidates).team, 0 - 1),
                                 !.candidates = Tail(@)])

\* Phase 3: the final run under best_config has returned; an exception of
\* that run would leave the method without a result
jit_finalized ==
    /\ Returned("jit_final")
    /\ pc = "done"
    /\ Proceed([opt EXCEPT !.at = "returned",
                           !.result = [config |-> opt.best_config,
                                       total_workforce |-> TotalWorkforce(opt.best_config),
                                       makespan |-> calculate_makespan(task_schedule),
                                       metrics |-> Metrics,
                                       placed |-> Len(task_schedule),
                                       max_deviation |-> opt.best_deviation,
                                       max_lateness |-> Max_lateness,
                                       total_lateness |-> Total_lateness]])

-----------------------------------------------------------------------------
(* scenario_3_multidimensional_optimization                                *)

MinObserved(o) == [o EXCEPT !.feasible_seen = @ \/ (pc = "done" /\ Scheduled_all)]

\* the head of the Phase 2 loop, then Phase 3
MinPhase2Head(o) ==
    IF o.improved /\ o.optimization_iterations < MaxOptimizationIterations
    THEN [o EXCEPT !.at = "min_phase2", !.improved = FALSE,
                   !.optimization_iterations = @ + 1]
    ELSE [o EXCEPT !.at = "min_final"]

\* the head of the Phase 1 loop, then the exit with None or Phase 2
MinLoopHead(o) ==
    IF o.iteration < o.max_iterations /\ ~o.phase1_complete
    THEN [o EXCEPT !.at = "min_phase1", !.iteration = @ + 1]
    ELSE IF o.best_config = NoConfig THEN [o EXCEPT !.at = "returned"]
    ELSE MinPhase2Head([o EXCEPT !.target_max_lateness = o.best_max_lateness,
                                 !.target_total10 = 11 * o.best_total_lateness,
                                 !.improved = TRUE,
                                 !.optimization_iterations = 0])

\* the exception branch: the first team of minimum capacity grows by one
\* when it is below the maximum
MinAfterException(o) ==
    LET team == FirstMinimum(o.current_config.mechanic)
    IN IF o.current_config.mechanic[team] < o.max_mechanics
       THEN MinLoopHead([o EXCEPT !.current_config = Changed(@, "mechanic", team, 1)])
       ELSE MinLoopHead(o)

\* not everything was placed: every blocking team below its maximum grows
\* by one
MinAfterUnscheduled(o) ==
    LET mechanic == {t \in identify_blocking_teams("mechanic") :
                        o.current_config.mechanic[t] < o.max_mechanics}
        quality == {t \in identify_blocking_teams("quality") :
                       o.current_config.quality[t] < o.max_quality}
        grown == [mechanic |-> [t \in DOMAIN o.current_config.mechanic |->
                                   o.current_config.mechanic[t]
                                   + (IF t \in mechanic THEN 1 ELSE 0)],
                  quality |-> [t \in DOMAIN o.current_config.quality |->
                                  o.current_config.quality[t]
                                  + (IF t \in quality THEN 1 ELSE 0)]]
    IN MinLoopHead([o EXCEPT !.current_config = grown,
                             !.phase1_complete = (mechanic = {} /\ quality = {})])

\* "if not improved": a bottleneck mechanic team grows by two, else a
\* bottleneck quality team by one, else the smallest mechanic team, else the
\* smallest quality team; with nothing to grow Phase 1 is complete
MinGrowth(o) ==
    LET mechanic == {t \in identify_bottleneck_teams("mechanic") :
                        o.current_config.mechanic[t] < o.max_mechanics}
        quality == {t \in identify_bottleneck_teams("quality") :
                       o.current_config.quality[t] < o.max_quality}
        min_mech == FirstMinimum(o.current_config.mechanic)
        min_qual == FirstMinimum(o.current_config.quality)
    IN IF mechanic # {}
       THEN {[o EXCEPT !.current_config = Changed(@, "mechanic", t, 2)] : t \in mechanic}
       ELSE IF quality # {}
       THEN {[o EXCEPT !.current_config = Changed(@, "quality", t, 1)] : t \in quality}
       ELSE IF o.current_config.mechanic[min_mech] < o.max_mechanics
       THEN {[o EXCEPT !.current_config = Changed(@, "mechanic", min_mech, 1)]}
       ELSE IF o.current_config.quality[min_qual] < o.max_quality
       THEN {[o EXCEPT !.current_config = Changed(@, "quality", min_qual, 1)]}
       ELSE {[o EXCEPT !.phase1_complete = TRUE]}

\* everything was placed: track the improvement, save the best, grow when
\* the lateness did not improve
MinAfterEvaluation(o) ==
    LET max_lateness == Max_lateness
        total_lateness == Total_lateness
        lower == max_lateness < o.previous_max_lateness
        equal == ~lower /\ max_lateness = o.previous_max_lateness
                 /\ total_lateness < o.previous_total_lateness
        improved == lower \/ equal
        o1 == [o EXCEPT !.previous_max_lateness = IF lower THEN max_lateness ELSE @,
                        !.previous_total_lateness = IF equal THEN total_lateness ELSE @]
        better == \/ max_lateness < o.best_max_lateness
                  \/ /\ max_lateness = o.best_max_lateness
                     /\ total_lateness < o.best_total_lateness
        o2 == IF better
              THEN [o1 EXCEPT !.best_max_lateness = max_lateness,
                              !.best_total_lateness = total_lateness,
                              !.best_config = o.current_config,
                              !.best_total_workforce = TotalWorkforce(o.current_config),
                              !.best_evidence = Evidence,
                              !.iterations_without_improvement = 0,
                              !.phase1_complete = (max_lateness = 0)]
              ELSE [o1 EXCEPT !.iterations_without_improvement = @ + 1]
    IN IF o2.iterations_without_improvement >= max_iterations_without_improvement
       THEN {MinLoopHead([o2 EXCEPT !.phase1_complete = TRUE])}
       ELSE IF ~improved THEN {MinLoopHead(g) : g \in MinGrowth(o2)}
       ELSE {MinLoopHead(o2)}

\* the teams Phase 2 tries with one person less: mechanic teams used below
\* 70 % and above the minimum, least utilized first, then such quality
\* teams that have more inspectors than their peak concurrent need
ReductionCandidates(o) ==
    SelectSeq(SortByUtil(Utilizations("mechanic"), <<>>),
              LAMBDA u : /\ UtilBelow(u, 7, 10)
                         /\ o.best_config.mechanic[u.team] > o.min_mechanics)
    \o SelectSeq(SortByUtil(Utilizations("quality"), <<>>),
                 LAMBDA u : /\ UtilBelow(u, 7, 10)
                            /\ o.best_config.quality[u.team] > o.min_quality
                            /\ o.best_config.quality[u.team] > u.max_concurrent)

MinNextCandidate(o, candidates) ==
    IF candidates = <<>> THEN MinPhase2Head([o EXCEPT !.candidates = <<>>])
    ELSE [o EXCEPT !.at = "min_reduce",
                   !.test_config = Changed(o.best_config, Head(candidates).type,
                                           Head(candidates).team, 0 - 1),
                   !.candidates = Tail(candidates)]

MinParameters ==
    {[min_mechanics |-> 1, max_mechanics |-> mm, min_quality |-> 1, max_quality |-> mq,
      target_lateness |-> 0, tolerance |-> 0, max_iterations |-> it]
     : mm \in {2, 3}, mq \in {1, 2}, it \in {1, MaxIterations + 1}}

scenario_3_multidimensional_optimization ==
    /\ opt.at = "off"
    /\ pc = "idle"
    /\ runs = 0
    /\ \E p \in MinParameters : Proceed(MinLoopHead(Started("min", p)))

\* Phase 1: the run of the current configuration has returned or raised
min_phase1_evaluated ==
    /\ Returned("min_phase1")
    /\ LET o == MinObserved(opt)
       IN IF pc = "raised" THEN Proceed(MinAfterException(o))
          ELSE IF ~Scheduled_all THEN Proceed(MinAfterUnscheduled(o))
          ELSE \E next \in MinAfterEvaluation(o) : Proceed(next)

\* Phase 2: the run under best_config that measures the utilization has
\* returned; an exception of that run would leave the method
min_phase2_analyzed ==
    /\ Returned("min_phase2")
    /\ pc = "done"
    /\ Proceed(MinNextCandidate(opt, ReductionCandidates(opt)))

\* Phase 2: the test of a team with one person less has returned
min_reduce_tested ==
    /\ Returned("min_reduce")
    /\ IF test_configuration_with_lateness_target(opt.target_max_lateness,
                                                  opt.target_total10)
       THEN Proceed(MinPhase2Head(
                [opt EXCEPT !.best_config = opt.test_config,
                            !.best_total_workforce = @ - 1,
                            !.improved = TRUE,
                            !.candidates = <<>>,
                            !.kept = @ \cup {[max_lateness |-> Max_lateness,
                                              total_lateness |-> Total_lateness]}]))
       ELSE Proceed(MinNextCandidate(opt, opt.candidates))

\* Phase 3: the final run under best_config has returned
min_finalized ==
    /\ Returned("min_final")
    /\ pc = "done"
    /\ Proceed([opt EXCEPT !.at = "returned",
                           !.result = [config |-> opt.best_config,
                                       total_workforce |-> TotalWorkforce(opt.best_config),
                                       makespan |-> calculate_makespan(task_schedule),
                                       metrics |-> Metrics,
                                       placed |-> Len(task_schedule),
                                       max_deviation |-> 0,
                                       max_lateness |-> Max_lateness,
                                       total_lateness |-> Total_lateness]])

-----------------------------------------------------------------------------
(* Inputs and specification of the optimizers                              *)

\* two full-shift tasks that share a team, beside a task that needs two
\* people of a second team
ParallelInput ==
    [BaseInput EXCEPT
        !.tasks = ("A_1" :> Production(ProductA, "M1", FullShift, 1))
                  @@ ("A_2" :> Production(ProductA, "M1", FullShift, 1))
                  @@ ("A_3" :> Production(ProductA, "M2", Tick, 2)),
        !.delivery_dates = (ProductA :> Day(7))]

\* the same line with crews of one and a delivery date that is already past
LateInput ==
    [BaseInput EXCEPT
        !.tasks = ("A_1" :> Production(ProductA, "M1", FullShift, 1))
                  @@ ("A_2" :> Production(ProductA, "M1", FullShift, 1))
                  @@ ("A_3" :> Production(ProductA, "M2", Tick, 1)),
        !.delivery_dates = (ProductA :> Day(3))]

\* a late part feeding a task that leads into a directed cycle
CyclicInput ==
    [BaseInput EXCEPT
        !.tasks = CycleTasks @@ ("A_50" :> LatePart(ProductA, "M1", Tick, 1)),
        !.precedence_constraints = <<Edge("A_3", "A_1", FLS), Edge("A_1", "A_2", FLS),
                                     Edge("A_2", "A_1", FLS)>>,
        !.late_part_constraints = <<Edge("A_50", "A_3", FLS)>>,
        !.late_part_tasks = {"A_50"},
        !.on_dock_dates = ("A_50" :> Day(3)),
        !.delivery_dates = (ProductA :> Day(7))]

\* two products that compete for team M1: A_2 and B_1 have the same critical
\* path and the same number of dependents, and A_2 is two priority points ahead
CompetingInput ==
    [BaseInput EXCEPT
        !.tasks = ("A_1" :> Production(ProductA, "M1", Tick, 1))
                  @@ ("A_2" :> Production(ProductA, "M1", 14 * Tick, 1))
                  @@ ("A_3" :> Production(ProductA, "M2", Tick, 1))
                  @@ ("B_1" :> Production(ProductB, "M1", 12 * Tick, 1))
                  @@ ("B_2" :> Production(ProductB, "M2", 3 * Tick, 1)),
        !.precedence_constraints = <<Edge("A_1", "A_2", FLS), Edge("A_2", "A_3", FLS), Edge("B_1", "B_2", FLS)>>,
        !.delivery_dates = (ProductA :> Day(4)) @@ (ProductB :> Day(5))]

OptInputs == {ParallelInput, LateInput, CyclicInput, CompetingInput}

InitOpt ==
    /\ \E in \in OptInputs : Loaded(in)
    /\ Fresh

NextOpt ==
    \/ schedule_tasks_begin
    \/ schedule_tasks_raise
    \/ iteration_place
    \/ iteration_retry
    \/ iteration_raise
    \/ iteration_break
    \/ loop_exit
    \/ clock_advance
    \/ scenario_2_just_in_time_optimization
    \/ jit_phase1_tested
    \/ jit_phase2_evaluated
    \/ jit_reduce_tested
    \/ jit_early_tested
    \/ jit_finalized
    \/ scenario_3_multidimensional_optimization
    \/ min_phase1_evaluated
    \/ min_phase2_analyzed
    \/ min_reduce_tested
    \/ min_finalized

SpecOpt == InitOpt /\ [][NextOpt]_vars

-----------------------------------------------------------------------------
(* simulate_priority_change                                                *)

priority_multipliers == ("high" :> 50) @@ ("critical" :> 25) @@ ("exclusive" :> 10)
PriorityLevels == DOMAIN priority_multipliers \cup {"normal"}
\* priority_multipliers.get(priority_level, 0.5)
Multiplier(priority_level) ==
    IF priority_level \in DOMAIN priority_multipliers
    THEN priority_multipliers[priority_level]
    ELSE priority_multipliers["high"]

\* "task['priority_score'] *= multiplier" for the entries of the product; a
\* score that no call has multiplied yet is a whole number of hundreds
Rescored(list, priority_product, multiplier) ==
    [i \in DOMAIN list |->
        IF list[i].product_line = priority_product
        THEN [list[i] EXCEPT !.priority_score = (@ \div Hundredths) * multiplier]
        ELSE list[i]]

\* list.sort(key=priority_score), stable
RECURSIVE InsertByScore(_, _)
InsertByScore(sorted, e) ==
    IF sorted = <<>> THEN <<e>>
    ELSE LET last == sorted[Len(sorted)]
         IN IF last.priority_score <= e.priority_score THEN Append(sorted, e)
            ELSE Append(InsertByScore(SubSeq(sorted, 1, Len(sorted) - 1), e), last)
RECURSIVE SortByScore(_, _)
SortByScore(s, sorted) ==
    IF s = <<>> THEN sorted ELSE SortByScore(Tail(s), InsertByScore(sorted, Head(s)))

\* simulate_priority_change up to its call of schedule_tasks.  The two saved
\* copies are shallow: original_priorities is a new list of the same entry
\* objects, so it shows the rescored entries in the order held before the
\* sort.  prev remembers the state the call found.
simulate_priority_change ==
    /\ opt.at = "off"
    /\ pc \in {"idle", "done"}
    /\ \E priority_product \in DOMAIN delivery_dates, priority_level \in PriorityLevels :
        LET rescored == Rescored(global_priority_list, priority_product,
                                 Multiplier(priority_level))
        IN /\ opt' = [OptOff EXCEPT !.kind = "simulate", !.at = "simulate_run",
                                    !.original_schedule = task_schedule,
                                    !.original_priorities = rescored]
           /\ global_priority_list' = SortByScore(rescored, <<>>)
    /\ prev' = [prev EXCEPT !.valid = TRUE, !.task_schedule = task_schedule,
                            !.global_priority_list = global_priority_list]
    /\ pc' = "idle"
    /\ UNCHANGED <<loaded, app, capacities, task_schedule, locals, now, clock_ticks, runs>>

\* schedule_tasks has returned: "Restore original state" and return
simulation_returned ==
    /\ opt.kind = "simulate"
    /\ opt.at = "simulate_run"
    /\ pc = "done"
    /\ task_schedule' = opt.original_schedule
    /\ global_priority_list' = opt.original_priorities
    /\ opt' = [opt EXCEPT !.at = "returned"]
    /\ UNCHANGED <<loaded, app, capacities, pc, locals, now, clock_ticks, runs, prev>>

\* schedule_tasks has raised: the exception leaves simulate_priority_change
\* before the restore
simulation_raised ==
    /\ opt.kind = "simulate"
    /\ opt.at = "simulate_run"
    /\ pc = "raised"
    /\ opt' = [opt EXCEPT !.at = "raised"]
    /\ UNCHANGED <<loaded, app, capacities, task_schedule, global_priority_list, pc, locals,
                   now, clock_ticks, runs, prev>>

NextSim ==
    \/ schedule_tasks_begin
    \/ schedule_tasks_raise
    \/ iteration_place
    \/ iteration_retry
    \/ iteration_raise
    \/ iteration_break
    \/ loop_exit
    \/ clock_advance
    \/ simulate_priority_change
    \/ simulation_returned
    \/ simulation_raised

SpecSim == InitOpt /\ [][NextSim]_vars

-----------------------------------------------------------------------------
(* The web application: lazy initialization in a background thread         *)

\* every step of the application leaves the scheduler's own state alone
AppStep(next) ==
    /\ app' = next
    /\ UNCHANGED <<loaded, capacities, task_schedule, global_priority_list, pc,
                   locals, now, clock_ticks, runs, prev, opt>>

Status == app.initialization_status
NotStarted == ~Status.initialized /\ ~Status.initializing
Arrived(r, route, position) ==
    [app EXCEPT !.route[r] = route, !.request[r] = position]

\* route '/': the unlocked test, then initialize_scheduler_lazy
index ==
    \E r \in Requests :
        /\ app.request[r] = "none"
        /\ AppStep(Arrived(r, "index", IF NotStarted THEN "lazy" ELSE "done"))

\* route '/api/scenarios': the same unlocked test
get_scenarios ==
    \E r \in Requests :
        /\ app.request[r] = "none"
        /\ AppStep(Arrived(r, "get_scenarios", IF NotStarted THEN "lazy" ELSE "done"))

\* route '/api/refresh': initialized is reset without the lock ...
refresh_data ==
    \E r \in Requests :
        /\ app.request[r] = "none"
        /\ AppStep([Arrived(r, "refresh_data", "reset")
                        EXCEPT !.initialization_status.initialized = FALSE])

\* ... then the error, scenario_results.clear(), and
\* initialize_scheduler_lazy is called
refresh_data_reset ==
    \E r \in Requests :
        /\ app.request[r] = "reset"
        /\ AppStep([app EXCEPT !.initialization_status.error = FALSE,
                              !.scenario_results = {},
                              !.request[r] = "lazy"])

\* initialize_scheduler_lazy: 'with initialization_lock'
initialize_scheduler_lazy_acquire ==
    \E r \in Requests :
        /\ app.request[r] = "lazy"
        /\ app.initialization_lock = Free
        /\ AppStep([app EXCEPT !.initialization_lock = <<"request", r>>,
                              !.request[r] = "locked"])

\* initialize_scheduler_lazy: the test under the lock and the thread start
initialize_scheduler_lazy ==
    \E r \in Requests :
        /\ app.request[r] = "locked"
        /\ IF Status.initialized \/ Status.initializing
           THEN AppStep([app EXCEPT !.initialization_lock = Free,
                                   !.request[r] = "done"])
           ELSE AppStep([app EXCEPT !.initialization_lock = Free,
                                   !.request[r] = "done",
                                   !.thread[r] = "start"])

\* initialize_scheduler_async: 'with initialization_lock'
initialize_scheduler_async_acquire ==
    \E r \in Requests :
        /\ app.thread[r] = "start"
        /\ app.initialization_lock = Free
        /\ AppStep([app EXCEPT !.initialization_lock = <<"thread", r>>,
                              !.thread[r] = "locked"])

\* the test of initialize_scheduler_async under the lock
AlreadyRunningNever(status) == FALSE
AlreadyRunning(status) == status.initializing

\* initialize_scheduler_async: return if already running, else claim the
\* initialization and leave the lock
initialize_scheduler_async ==
    \E r \in Requests :
        /\ app.thread[r] = "locked"
        /\ IF AlreadyRunning(Status)
           THEN AppStep([app EXCEPT !.initialization_lock = Free,
                                   !.thread[r] = "returned"])
           ELSE AppStep([app EXCEPT !.initialization_lock = Free,
                                   !.initialization_status.initializing = TRUE,
                                   !.thread[r] = "loading"])

\* the try block: loading the data; any statement of it may raise
load_data ==
    \E r \in Requests, raises \in BOOLEAN :
        /\ app.thread[r] = "loading"
        /\ AppStep([app EXCEPT !.initialization_status.current_scenario = "Loading data",
                              !.thread[r] = IF raises THEN "except" ELSE "running"])

\* the try block: baseline and scenarios 1 to 3, one after the other; each
\* sets current_scenario, runs and stores its entry of scenario_results
\* (scenarios 2 and 3 store create_failed_scenario_data when they find nothing)
Scenarios ==
    ("running" :> [name |-> "baseline", current_scenario |-> "Baseline", then |-> "scenario1"])
    @@ ("scenario1" :> [name |-> "scenario1", current_scenario |-> "Scenario 1",
                        then |-> "scenario2"])
    @@ ("scenario2" :> [name |-> "scenario2", current_scenario |-> "Scenario 2",
                        then |-> "scenario3"])
    @@ ("scenario3" :> [name |-> "scenario3", current_scenario |-> "Scenario 3",
                        then |-> "completed"])
run_scenarios ==
    \E r \in Requests, raises \in BOOLEAN :
        /\ app.thread[r] \in DOMAIN Scenarios
        /\ LET scenario == Scenarios[app.thread[r]]
           IN IF raises
              THEN AppStep([app EXCEPT !.initialization_status.current_scenario =
                                           scenario.current_scenario,
                                       !.thread[r] = "except"])
              ELSE AppStep([app EXCEPT !.initialization_status.current_scenario =
                                           scenario.current_scenario,
                                       !.scenario_results = @ \cup {scenario.name},
                                       !.thread[r] = scenario.then])

\* end of the try block, one assignment after the other
set_initialized ==
    \E r \in Requests :
        /\ app.thread[r] = "completed"
        /\ AppStep([app EXCEPT !.initialization_status.initialized = TRUE,
                              !.thread[r] = "clearing"])
clear_initializing ==
    \E r \in Requests :
        /\ app.thread[r] = "clearing"
        /\ AppStep([app EXCEPT !.initialization_status.initializing = FALSE,
                              !.thread[r] = "ending"])
clear_current_scenario ==
    \E r \in Requests :
        /\ app.thread[r] = "ending"
        /\ AppStep([app EXCEPT !.initialization_status.current_scenario = "None",
                              !.thread[r] = "returned"])

\* the except block, one assignment after the other, then 'raise'
record_error ==
    \E r \in Requests :
        /\ app.thread[r] = "except"
        /\ AppStep([app EXCEPT !.initialization_status.error = TRUE,
                              !.thread[r] = "except_clearing"])
except_clear_initializing ==
    \E r \in Requests :
        /\ app.thread[r] = "except_clearing"
        /\ AppStep([app EXCEPT !.initialization_status.initializing = FALSE,
                              !.thread[r] = "except_ending"])
except_clear_initialized ==
    \E r \in Requests :
        /\ app.thread[r] = "except_ending"
        /\ AppStep([app EXCEPT !.initialization_status.initialized = FALSE,
                              !.initialization_status.current_scenario = "None",
                              !.thread[r] = "raised"])

InitApp ==
    /\ Loaded(InspectedChainInput)
    /\ Fresh

NextApp ==
    \/ index
    \/ get_scenarios
    \/ refresh_data
    \/ refresh_data_reset
    \/ initialize_scheduler_lazy_acquire
    \/ initialize_scheduler_lazy
    \/ initialize_scheduler_async_acquire
    \/ initialize_scheduler_async
    \/ load_data
    \/ run_scenarios
    \/ set_initialized
    \/ clear_initializing
    \/ clear_current_scenario
    \/ record_error
    \/ except_clear_initializing
    \/ except_clear_initialized

SpecApp == InitApp /\ [][NextApp]_vars

-----------------------------------------------------------------------------
(* Specification of the scheduler                                          *)

Next ==
    \/ schedule_tasks_begin
    \/ schedule_tasks_raise
    \/ iteration_place
    \/ iteration_retry
    \/ iteration_raise
    \/ iteration_break
    \/ loop_exit
    \/ apply_configuration
    \/ clock_advance

Spec == Init /\ [][Next]_vars


-----------------------------------------------------------------------------
(* Properties                                                              *)

Placed(task_id) == task_id \in Scheduled
DynamicEdges == Range(build_dynamic_dependencies)
PlacedEdges == {c \in DynamicEdges : Placed(c.First) /\ Placed(c.Second)}
IndexOf(task_id) == CHOOSE i \in DOMAIN task_schedule : task_schedule[i].task_id = task_id
\* the assignments made before the i-th one
PlacedBefore(i) == SubSeq(task_schedule, 1, i - 1)
\* capacity of a team, mechanic or quality
TeamCapacity(team) ==
    IF team \in DOMAIN team_capacity THEN team_capacity[team]
    ELSE quality_team_capacity[team]
\* the shifts a team works
ShiftsWorked(team) ==
    IF team \in DOMAIN team_shifts THEN Range(team_shifts[team])
    ELSE IF team \in QualityTeams THEN Range(QualityShifts(team))
    ELSE {}

\* C1: at every minute covered by an assignment of a team, the crews of the
\* assignments of that team that cover the minute sum to at most the capacity
\* of the team
C1_CapacityRespected ==
    \A i \in DOMAIN task_schedule :
        \A m \in MinutesBetween(task_schedule[i].start_time, task_schedule[i].end_time) :
            UsageAt(task_schedule, task_schedule[i].team, m)
                <= TeamCapacity(task_schedule[i].team)

\* a finished run in which a task without predecessors had to wait for the
\* end of another assignment of its team, and a team was used in full
C1_Witness ==
    /\ pc = "done"
    /\ \E i, j \in DOMAIN task_schedule :
        /\ i # j
        /\ task_schedule[i].team = task_schedule[j].team
        /\ dependencies(task_schedule[j].task_id) = {}
        /\ task_schedule[j].task_id \notin late_part_tasks
        /\ task_schedule[i].start_time = StartDate
        /\ task_schedule[j].start_time = task_schedule[i].end_time
        /\ UsageAt(task_schedule, task_schedule[i].team, StartDate)
               = TeamCapacity(task_schedule[i].team)

\* C2: after a run, every placed edge a -> b has b.start_time >= a.end_time
C2_SuccessorAfterPredecessor ==
    pc = "done" =>
        \A c \in PlacedEdges : Sched(c.Second).start_time >= Sched(c.First).end_time

TeamAvailableAt(i, t) ==
    LET b == task_schedule[i]
    IN /\ is_working_day(t, b.product_line)
       /\ AvailableShift(b.team, MinuteOfDay(t), b.is_quality) # None
       /\ CapacityFree(PlacedBefore(i), b.team, t, t + b.duration, b.mechanics_required)

\* a is the only 'Finish = Start' predecessor of b and no other placed
\* predecessor of b ends after a
TightPredecessor(a, b) ==
    /\ a \in dependencies(b)
    /\ Placed(a)
    /\ Placed(b)
    /\ IsFinishEqualsStart(a, b)
    /\ \A p \in dependencies(b) \ {a} :
           Placed(p) => /\ ~IsFinishEqualsStart(p, b)
                        /\ Sched(p).end_time <= Sched(a).end_time

InWorkedShift(team, t) == \E sh \in ShiftsWorked(team) : InWindow(sh, MinuteOfDay(t))

\* C4: every assignment starts and ends inside a shift window its team works
C4_InsideWorkedShifts ==
    \A i \in DOMAIN task_schedule :
        /\ InWorkedShift(task_schedule[i].team, task_schedule[i].start_time)
        /\ InWorkedShift(task_schedule[i].team, task_schedule[i].end_time - 1)

\* C5: every minute of every assignment falls on a working day of its product
C5_OnlyWorkingDays ==
    \A i \in DOMAIN task_schedule :
        \A m \in MinutesBetween(task_schedule[i].start_time, task_schedule[i].end_time) :
            is_working_day(m, task_schedule[i].product_line)

\* C6: every placed late part starts at or after 06:00 of the day
\* on_dock + late_part_delay_days
C6_LatePartAfterOnDock ==
    \A t \in Scheduled \cap late_part_tasks :
        t \in DOMAIN on_dock_dates =>
            Sched(t).start_time >=
                ReplaceTime(on_dock_dates[t] + late_part_delay_days * MinutesPerDay,
                            Shift1Start)

\* start and end per instance, and rank per instance, of a run
Times(schedule) ==
    {<<schedule[i].task_id, schedule[i].start_time, schedule[i].end_time>> :
        i \in DOMAIN schedule}
Ranks(list) == {<<list[i].task_id, list[i].global_priority>> : i \in DOMAIN list}
SameCapacities ==
    /\ prev.team_capacity = team_capacity
    /\ prev.quality_team_capacity = quality_team_capacity

\* C7: a second run on the same inputs and capacities gives every instance
\* the same start and end time and the same rank as the first run
C7_Deterministic ==
    (pc = "done" /\ prev.valid /\ SameCapacities) =>
        /\ Times(task_schedule) = Times(prev.task_schedule)
        /\ Ranks(global_priority_list) = Ranks(prev.global_priority_list)

\* exactly one team has one person less than in the previous run
ReducedByOne ==
    \/ /\ prev.quality_team_capacity = quality_team_capacity
       /\ \E t \in DOMAIN team_capacity :
           /\ prev.team_capacity[t] > 1
           /\ team_capacity = [prev.team_capacity EXCEPT ![t] = @ - 1]
    \/ /\ prev.team_capacity = team_capacity
       /\ \E t \in DOMAIN quality_team_capacity :
           /\ prev.quality_team_capacity[t] > 1
           /\ quality_team_capacity = [prev.quality_team_capacity EXCEPT ![t] = @ - 1]

\* C8: after reducing one team by one person, no product is less late than
\* in the previous run
C8_MonotoneLateness ==
    (pc = "done" /\ prev.valid /\ ReducedByOne) =>
        \A product \in DOMAIN delivery_dates :
            lateness_days(global_priority_list, product)
                >= lateness_days(prev.global_priority_list, product)

\* the dynamic edge set contains a directed cycle
DirectedCycle == \E u \in all_tasks_in_constraints : u \in AllSuccessors(graph(u))

\* C9: with a directed cycle in the dynamic edge set no run completes: it
\* ends in an error
C9_CycleIsFatal == DirectedCycle => pc # "done"

\* C10: after a run, a product with a permanently failed instance is
\* reported unschedulable
C10_FailedProductUnschedulable ==
    pc = "done" =>
        \A t \in failed_tasks :
            /\ lateness_days(global_priority_list, tasks[t].product_line)
                   = UnschedulableLateness
            /\ ~on_time(global_priority_list, tasks[t].product_line)

\* C11: after a run that left at least one live instance without an
\* assignment, whatever the number of placed instances from zero to
\* total_tasks - 1, calculate_makespan returns 999999
C11_MakespanFailureWhenIncomplete ==
    (pc = "done" /\ Len(task_schedule) < total_tasks)
        => calculate_makespan(task_schedule) = MakespanFailure

\* a finished run with some but not all instances placed reports 999999
C11_PartialRunsReportFailure ==
    (pc = "done" /\ task_schedule # <<>> /\ Len(task_schedule) < total_tasks)
        => calculate_makespan(task_schedule) = MakespanFailure

\* the tables of the run are those of an input
LoadedFrom(in) ==
    /\ tasks = in.tasks
    /\ precedence_constraints = in.precedence_constraints
    /\ late_part_constraints = in.late_part_constraints
    /\ quality_requirements = in.quality_requirements
    /\ on_dock_dates = in.on_dock_dates
    /\ team_shifts = in.team_shifts
    /\ quality_team_shifts = in.quality_team_shifts
    /\ holidays = in.holidays
Slot(task_id) == <<Sched(task_id).start_time, Sched(task_id).end_time>>
At(day, hour, minute) == Day(day) + 60 * hour + minute

\* C18 as stated: with late part 50 on dock on 2025-08-23 and one day of
\* delay, 50 is placed on 2025-08-24 06:00-07:00 and 51 on 2025-08-24
\* 07:00-08:00
C18_LatePartOnSunday ==
    (LoadedFrom(LatePartGateInput) /\ pc = "done")
        => /\ Placed("A_50") /\ Placed("A_51")
           /\ Slot("A_50") = <<At(6, 6, 0), At(6, 7, 0)>>
           /\ Slot("A_51") = <<At(6, 7, 0), At(6, 8, 0)>>

\* C18 amended: 2025-08-24 is a Sunday, so 50 is placed on Monday
\* 2025-08-25 06:00-07:00 and 51 on 2025-08-25 07:00-08:00
C18_LatePartOnMonday ==
    (LoadedFrom(LatePartGateInput) /\ pc = "done")
        => /\ Placed("A_50") /\ Placed("A_51")
           /\ Slot("A_50") = <<At(7, 6, 0), At(7, 7, 0)>>
           /\ Slot("A_51") = <<At(7, 7, 0), At(7, 8, 0)>>

C18_Witness ==
    /\ LoadedFrom(LatePartGateInput) /\ pc = "done"
    /\ Placed("A_50") /\ Placed("A_51")
    /\ Weekday(At(6, 6, 0)) = 6
    /\ Sched("A_50").start_time > get_earliest_start_for_late_part("A_50")

\* C19: the chain 1 -> 2 with inspection 10001 of task 1 is placed in the
\* order 1, 10001, 2: 1 at 06:00-07:00, 10001 at 07:00-07:30 and 2 at
\* 07:30-08:30 on 2025-08-22
C19_InspectionBetween ==
    (LoadedFrom(InspectedChainInput) /\ pc = "done")
        => /\ [i \in DOMAIN task_schedule |-> task_schedule[i].task_id]
                = <<"A_1", "A_10001", "A_2">>
           /\ Slot("A_1") = <<At(4, 6, 0), At(4, 7, 0)>>
           /\ Slot("A_10001") = <<At(4, 7, 0), At(4, 7, 30)>>
           /\ Slot("A_2") = <<At(4, 7, 30), At(4, 8, 30)>>

C19_Witness ==
    /\ LoadedFrom(InspectedChainInput) /\ pc = "done"
    /\ Len(task_schedule) = 3
    /\ Sched("A_10001").team = "Q1"
    /\ team_capacity["M1"] = 1 /\ quality_team_capacity["Q1"] = 1

\* C20: the list of generate_global_priority_list holds every placed
\* instance exactly once, is sorted ascending by (scheduled_start,
\* slack_hours), and global_priority is the 1-based position
C20_PriorityListSorted ==
    pc = "done"
        => /\ Len(global_priority_list) = Len(task_schedule)
           /\ \A t \in Scheduled :
                Cardinality({i \in DOMAIN global_priority_list :
                                global_priority_list[i].task_id = t}) = 1
           /\ \A i \in DOMAIN global_priority_list :
                /\ global_priority_list[i].task_id \in Scheduled
                /\ global_priority_list[i].global_priority = i
                /\ global_priority_list[i].scheduled_start
                    = Sched(global_priority_list[i].task_id).start_time
           /\ \A i, j \in DOMAIN global_priority_list :
                i < j =>
                    LET a == global_priority_list[i]
                        b == global_priority_list[j]
                    IN \/ a.scheduled_start < b.scheduled_start
                       \/ /\ a.scheduled_start = b.scheduled_start
                          /\ a.slack_hours <= b.slack_hours

\* two instances placed with the same start, the one placed later having
\* less slack, so that the list order differs from the placement order
C20_Witness ==
    /\ pc = "done"
    /\ \E i, j \in DOMAIN task_schedule :
        /\ i < j
        /\ task_schedule[i].start_time = task_schedule[j].start_time
        /\ calculate_slack_time(task_schedule, task_schedule[j].task_id)
            < calculate_slack_time(task_schedule, task_schedule[i].task_id)

\* C12: on every exit of scenario 2 and scenario 3, with a result or with
\* None, team_capacity and quality_team_capacity hold the capacities that
\* were loaded
C12_CapacitiesRestored ==
    opt.at = "returned"
        => /\ team_capacity = original_team_capacity
           /\ quality_team_capacity = original_quality_capacity

\* an optimizer has returned a result whose configuration, tried during the
\* search, differs from the loaded capacities
C12_Witness ==
    /\ opt.at = "returned"
    /\ opt.result.config # NoConfig
    /\ opt.result.config.mechanic # original_team_capacity
    /\ opt.result.config \in opt.trials

\* an optimizer has returned a result / has returned None
HasResult(kind) == opt.kind = kind /\ opt.at = "returned" /\ opt.result.config # NoConfig
ReturnedNone(kind) == opt.kind = kind /\ opt.at = "returned" /\ opt.result.config = NoConfig
WithinTolerance(placed, metrics) ==
    /\ placed = total_tasks
    /\ \A p \in DOMAIN delivery_dates :
        Abs(metrics[p] - opt.target_lateness) <= opt.tolerance
WithinBounds(config) ==
    /\ \A t \in DOMAIN config.mechanic : config.mechanic[t] <= opt.max_mechanics
    /\ \A t \in DOMAIN config.quality : config.quality[t] <= opt.max_quality

\* C17: at every point of both optimizers every trial and every returned
\* capacity of a mechanic team is at most max_mechanics and of a quality
\* team at most max_quality
C17_TrialsWithinBounds ==
    /\ \A config \in opt.trials : WithinBounds(config)
    /\ WithinBounds(opt.result.config)

\* C13: every result of the JIT optimizer carries a configuration under
\* which all instances are placed and every product has
\* |lateness_days - target_lateness| <= tolerance: the schedule and the
\* metrics of the result, produced under that configuration, satisfy it
C13_ResultWithinTolerance ==
    HasResult("jit") => WithinTolerance(opt.result.placed, opt.result.metrics)

\* the evaluation at which the returned configuration was recorded as best
\* (Phase 1 test or Phase 2 evaluation) was within tolerance
C13_RecordedWithinTolerance ==
    HasResult("jit") => WithinTolerance(opt.best_evidence.placed, opt.best_evidence.metrics)

\* C14: the configuration the JIT optimizer returns has, among the
\* configurations Phase 2 evaluated and found within tolerance, the minimum
\* total workforce and, among those, the minimum max-deviation
C14_ReturnedIsMinimum ==
    (HasResult("jit") /\ opt.within_seen # {})
        => /\ <<opt.best_total_workforce, opt.best_deviation>> \in opt.within_seen
           /\ \A e \in opt.within_seen :
                \/ opt.best_total_workforce < e[1]
                \/ /\ opt.best_total_workforce = e[1]
                   /\ opt.best_deviation <= e[2]

\* second half of C14: once a best is recorded, no step of the JIT optimizer
\* replaces it by a configuration of larger workforce
C14_NeverReplacedByLarger ==
    [][(opt.kind = "jit" /\ opt.best_total_workforce # Infinity)
        => opt'.best_total_workforce <= opt.best_total_workforce]_vars

\* C15: an optimizer returns None exactly when no configuration it evaluated
\* was feasible (JIT: all instances placed and every product within
\* tolerance; min-lateness: all instances placed)
C15_NoneIffNothingFeasible ==
    opt.at = "returned" => ((opt.result.config = NoConfig) <=> ~opt.feasible_seen)

\* the min-lateness half of C15 taken alone
C15_MinLatenessNoneIffNothingFeasible ==
    (opt.kind = "min" /\ opt.at = "returned")
        => ((opt.result.config = NoConfig) <=> ~opt.feasible_seen)

\* C16: in the min-lateness optimizer the max_lateness of the returned
\* result never exceeds the Phase-1 best max lateness
C16_ResultWithinPhase1Best ==
    HasResult("min") => opt.result.max_lateness <= opt.target_max_lateness

\* first half of C16: every kept Phase-2 reduction was tested with max
\* lateness <= the Phase-1 best and total lateness <= 1.1 x the Phase-1 total
C16_KeptReductionsPreserveTargets ==
    opt.kind = "min"
        => \A k \in opt.kept : /\ k.max_lateness <= opt.target_max_lateness
                               /\ 10 * k.total_lateness <= opt.target_total10

\* C21: every edge returned by build_dynamic_dependencies has its First and
\* its Second endpoint among the live instances (keys of tasks)
C21_EdgesBetweenLiveInstances ==
    \A i \in DOMAIN build_dynamic_dependencies :
        /\ build_dynamic_dependencies[i].First \in DOMAIN tasks
        /\ build_dynamic_dependencies[i].Second \in DOMAIN tasks

\* every baseline edge, taken alone, is between live instances
C21_BaselineEdgesLive ==
    \A i \in DOMAIN BaselineEdges(1, <<>>) :
        /\ BaselineEdges(1, <<>>)[i].First \in DOMAIN tasks
        /\ BaselineEdges(1, <<>>)[i].Second \in DOMAIN tasks

\* the threads that are in the part of initialize_scheduler_async guarded by
\* its test: after initializing was set and before it is cleared again
InBody == {"loading", "running", "scenario1", "scenario2", "scenario3", "completed",
           "clearing", "except", "except_clearing"}
Initializing == {r \in Requests : app.thread[r] \in InBody}

\* C22: under any interleaving of the requests that call
\* initialize_scheduler_lazy and of the background threads, at most one thread
\* at a time is loading data and running scenarios in
\* initialize_scheduler_async
C22_OneInitialization ==
    Cardinality(Initializing) <= 1

\* two threads were started: one is initializing, the other returned from the
\* test under the lock
C22_Witness ==
    \E r1, r2 \in Requests :
        /\ app.thread[r1] \in {"loading", "running"}
        /\ app.thread[r2] = "returned"
        /\ app.request[r1] = "done"
        /\ app.request[r2] = "done"

\* C23: when ready nodes in the heap have equal priority keys, the one that
\* was pushed first is popped first: no entry pushed before the entry that
\* heappop returns has the same priority key
C23_TiesPopInsertionOrder ==
    (pc = "running" /\ ready_tasks # <<>>)
        => \A j \in 1 .. HeapMinIndex(ready_tasks) - 1 :
            ready_tasks[j].priority # ready_tasks[HeapMinIndex(ready_tasks)].priority

\* what the heap does: among equal priority keys the smallest instance id
\* is popped
C23_TiesPopSmallestId ==
    (pc = "running" /\ ready_tasks # <<>>)
        => \A j \in DOMAIN ready_tasks :
            ready_tasks[j].priority = ready_tasks[HeapMinIndex(ready_tasks)].priority
                => IdRank(ready_tasks[HeapMinIndex(ready_tasks)].task) <= IdRank(ready_tasks[j].task)

\* C24: in a run on an acyclic graph, every dependent of a permanently
\* failed node whose other predecessors are all placed or failed was pushed
\* and attempted before the run ended: it is placed or failed itself
C24_FailedNodeDoesNotBlock ==
    (pc = "done" /\ ~DirectedCycle)
        => \A f \in failed_tasks : \A d \in dependents(f) :
            (\A p \in dependencies(d) : p \in Scheduled \cup failed_tasks)
                => d \in Scheduled \cup failed_tasks

\* a finished run in which a node failed and a dependent of it, with another
\* predecessor that is placed, was placed after the failure
C24_Witness ==
    /\ pc = "done"
    /\ ~DirectedCycle
    /\ \E f \in failed_tasks : \E d \in dependents(f) :
        /\ d \in Scheduled
        /\ \E p \in dependencies(d) : p # f /\ p \in Scheduled

\* C25: schedule_tasks terminates on every input, graphs with cycles run in
\* silent mode included: a silent run ends by its loop ending, never by the
\* interpreter aborting an unbounded recursion
C25_SilentRunEndsByLoop == silent_mode => pc # "raised"

\* C25, second half: the main loop executes at most 10 x |instances|
\* iterations
C25_IterationsWithinCap == iteration_count <= 10 * Cardinality(DOMAIN tasks)

\* the priority keys under which a task waits in a heap
QueuedKeys(heap, t) == {heap[i].priority : i \in {j \in DOMAIN heap : heap[j].task = t}}

\* C26: within one run a node's capacity search fails at most 3 times; after
\* each of the first two failures the node is pushed again with its popped
\* key plus 0.1 (1 tenth), on the third it is marked failed, and a failed node
\* is never pushed or placed again in that run
C26_ThreeAttempts ==
    [][pc = "running" =>
        \A t \in all_tasks :
            /\ task_retry_counts'[t] \in {task_retry_counts[t], task_retry_counts[t] + 1}
            /\ task_retry_counts'[t] <= 3
            /\ task_retry_counts'[t] > task_retry_counts[t] =>
                 LET popped == IF ready_tasks # <<>>
                               THEN QueuedKeys(ready_tasks, t)
                               ELSE {calculate_task_priority(t)}
                 IN IF task_retry_counts'[t] < 3
                    THEN /\ t \notin failed_tasks'
                         /\ \E k \in QueuedKeys(ready_tasks', t) : k - 1 \in popped
                    ELSE /\ t \in failed_tasks'
                         /\ QueuedKeys(ready_tasks', t) = {}
            /\ t \in failed_tasks =>
                 /\ t \in failed_tasks'
                 /\ task_retry_counts'[t] = task_retry_counts[t]
                 /\ QueuedKeys(ready_tasks', t) = {}
                 /\ \A i \in DOMAIN task_schedule' : task_schedule'[i].task_id # t
    ]_vars

\* a run ended in which a node failed three times and another was placed
C26_Witness ==
    /\ pc = "done"
    /\ Scheduled # {}
    /\ \E t \in failed_tasks : task_retry_counts[t] = 3

\* the task a step pops for placement: the one it places or fails to place
PoppedInStep(t) ==
    \/ task_retry_counts'[t] > task_retry_counts[t]
    \/ /\ Len(task_schedule') = Len(task_schedule) + 1
       /\ task_schedule'[Len(task_schedule')].task_id = t

\* C27: a node is popped for placement only after each of its predecessors in
\* the dynamic edge set was placed or marked failed, and the order of the
\* placements is a topological order of the placed subgraph
C27_PlacedInTopologicalOrder ==
    /\ [][pc = "running" =>
            \A t \in all_tasks :
                PoppedInStep(t) =>
                    \A c \in DynamicEdges :
                        c.Second = t => c.First \in Scheduled \cup failed_tasks]_vars
    /\ [](\A c \in PlacedEdges : IndexOf(c.First) < IndexOf(c.Second))

\* a run ended in which a node with two predecessors was placed after both
C27_Witness ==
    /\ pc = "done"
    /\ \E t \in Scheduled :
        /\ Cardinality(dependencies(t)) >= 2
        /\ dependencies(t) \subseteq Scheduled
        /\ \A p \in dependencies(t) : IndexOf(p) < IndexOf(t)

\* a bound that the search for the i-th assignment started from or below:
\* no lower bound of the loop (start date, on-dock date, end of a placed
\* predecessor) exceeds it
LatestLowerBound(i) ==
    LET b == task_schedule[i]
        ends == {Sched(p).end_time : p \in dependencies(b.task_id) \cap Scheduled}
        dock == IF b.task_id \in late_part_tasks
                THEN {get_earliest_start_for_late_part(b.task_id)} ELSE {}
    IN CHOOSE m \in ends \cup dock \cup {StartDate} : \A e \in ends \cup dock \cup {StartDate} : e <= m

\* the three conditions of the search at minute t for the i-th assignment
Feasible(i, t) ==
    LET b == task_schedule[i]
    IN /\ is_working_day(t, b.product_line)
       /\ InWorkedShift(b.team, t)
       /\ CapacityFree(PlacedBefore(i), b.team, t, t + b.duration, b.mechanics_required)

\* C28: the start the search returns for a mechanic task is the first minute,
\* from its lower bound on, that is on a working day of the product, inside a
\* shift the team works and has headroom for the whole duration
C28_EarliestFeasibleStart ==
    \A i \in DOMAIN task_schedule :
        ~task_schedule[i].is_quality =>
            \A k \in 0 .. ((task_schedule[i].start_time - LatestLowerBound(i)) \div Tick) :
                LET t == LatestLowerBound(i) + k * Tick
                IN t < task_schedule[i].start_time => ~Feasible(i, t)

\* C28, on the days the search does not skip: the returned start itself
\* satisfies the three conditions
C28_StartIsFeasible ==
    \A i \in DOMAIN task_schedule :
        ~task_schedule[i].is_quality => Feasible(i, task_schedule[i].start_time)

\* scheduled load (duration x crew) of a team when the i-th assignment is made
LoadBefore(i, team) ==
    SumSeq([j \in 1 .. i - 1 |->
              IF task_schedule[j].team = team
              THEN task_schedule[j].duration * task_schedule[j].mechanics_required
              ELSE 0])

\* the quality teams that work a shift and have the capacity for a crew
EligibleTeams(shift, mechanics_needed) ==
    {q \in QualityTeams : /\ shift \in Range(QualityShifts(q))
                          /\ q \in DOMAIN quality_team_capacity
                          /\ quality_team_capacity[q] >= mechanics_needed}

\* team q can start the i-th assignment at minute t of shift sh
FeasibleInShift(i, q, sh, t) ==
    LET b == task_schedule[i]
    IN /\ is_working_day(t, b.product_line)
       /\ InWindow(sh, MinuteOfDay(t))
       /\ CapacityFree(PlacedBefore(i), q, t, t + b.duration, b.mechanics_required)

\* C29, team and shift: every placed inspection has a quality team that works
\* the recorded shift, has the capacity for the crew and had the least
\* scheduled load among the eligible teams of that shift when it was chosen
C29_LeastLoadedTeamOfShift ==
    \A i \in DOMAIN task_schedule :
        LET b == task_schedule[i]
        IN b.is_quality =>
            /\ b.team \in EligibleTeams(b.shift, b.mechanics_required)
            /\ \A q \in EligibleTeams(b.shift, b.mechanics_required) :
                   LoadBefore(i, b.team) <= LoadBefore(i, q)

\* the least-loaded eligible teams of a shift when the i-th assignment is made
LeastLoaded(i, shift) ==
    LET eligible == EligibleTeams(shift, task_schedule[i].mechanics_required)
    IN {q \in eligible : \A r \in eligible : LoadBefore(i, q) <= LoadBefore(i, r)}

\* C29, start: the start of every placed inspection is the minimum of the
\* feasible starts over the shifts 1st, 2nd, 3rd, each with its least-loaded
\* eligible team: it is a feasible start of one of them and none has an
\* earlier one
C29_StartIsEarliestOverShifts ==
    \A i \in DOMAIN task_schedule :
        LET b == task_schedule[i]
        IN b.is_quality =>
            /\ \E sh \in Range(Shifts) : \E q \in LeastLoaded(i, sh) :
                   FeasibleInShift(i, q, sh, b.start_time)
            /\ \A sh \in Range(Shifts) : \A q \in LeastLoaded(i, sh) :
                   \A k \in 0 .. ((b.start_time - LatestLowerBound(i)) \div Tick) :
                       LET t == LatestLowerBound(i) + k * Tick
                       IN t < b.start_time => ~FeasibleInShift(i, q, sh, t)

\* C30: on a graph whose edge endpoints are all live instances validate_dag
\* returns False exactly when the dynamic edge set has a directed cycle, so on
\* an acyclic graph it returns True
C30_FalseIffDirectedCycle ==
    all_tasks_in_constraints \subseteq DOMAIN tasks => (validate_dag <=> ~DirectedCycle)

\* a run that was not silent was refused for a cycle between live instances,
\* next to a node that lies on no cycle
C30_Witness ==
    /\ pc = "raised"
    /\ ~silent_mode
    /\ all_tasks_in_constraints \subseteq DOMAIN tasks
    /\ DirectedCycle
    /\ ~validate_dag
    /\ \E u \in all_tasks_in_constraints : u \notin AllSuccessors(graph(u))

\* the positions of the dynamic edge list that hold an edge first -> second
EdgePositions(first, second) ==
    {i \in DOMAIN build_dynamic_dependencies :
        /\ build_dynamic_dependencies[i].First = first
        /\ build_dynamic_dependencies[i].Second = second}

\* the baseline and rework constraints the builder does not filter out
KeptConstraints ==
    {c \in Range(precedence_constraints) : c.First \in DOMAIN tasks /\ c.Second \in DOMAIN tasks}
    \cup {c \in Range(rework_constraints) : c.Second \in DOMAIN tasks \cup rework_tasks}

\* C31: in the dynamic edge list every instance with a QI companion has
\* exactly one edge to the companion, a 'Finish = Start' edge; every baseline
\* or rework edge that left the instance leaves the companion with the
\* original relation; and no baseline or rework edge goes directly from the
\* instance to its original successor
C31_EdgesThroughCompanion ==
    \A t \in DOMAIN tasks :
        HasQI(t) =>
            /\ Cardinality(EdgePositions(t, QIOf(t))) = 1
            /\ \A i \in EdgePositions(t, QIOf(t)) :
                   build_dynamic_dependencies[i].Relationship = FS
            /\ \A c \in KeptConstraints :
                   c.First = t =>
                       /\ Edge(QIOf(t), c.Second, c.Relationship) \in DynamicEdges
                       /\ c.Second # QIOf(t) => EdgePositions(t, c.Second) = {}

\* a run placed an inspected instance, its companion and, after the
\* companion, the successors of two baseline edges that left the instance
C31_Witness ==
    /\ pc = "done"
    /\ \E c, d \in KeptConstraints :
        /\ c.First = d.First /\ c.Second # d.Second
        /\ HasQI(c.First)
        /\ {c.First, QIOf(c.First), c.Second, d.Second} \subseteq Scheduled
        /\ IndexOf(QIOf(c.First)) < IndexOf(c.Second)
        /\ IndexOf(QIOf(c.First)) < IndexOf(d.Second)

\* a Phase 2 iteration of the JIT optimizer is being executed
InJitPhase2 == opt.kind = "jit" /\ opt.at \in {"jit_phase2", "jit_reduce", "jit_early"}

\* C32: the JIT Phase 2 loop stops no later than the 30th consecutive
\* iteration in which nothing improved (no capacity changed, no new best
\* recorded), whatever happened in those iterations
C32_StopsAfterThirtyUnimproved ==
    (opt.kind = "jit" /\ opt.unimproved >= 30) => ~InJitPhase2

\* C32, first half: the loop runs at most max_iterations iterations
C32_AtMostMaxIterations ==
    opt.kind = "jit" => opt.iteration <= opt.max_iterations

\* C32, the iterations that reach the end of the loop body: the loop stops
\* once no_improvement_count is 30
C32_StopsAtCountOfThirty ==
    InJitPhase2 => opt.no_improvement_count < 30

\* C33: calculate_slack_time returns +infinity for every instance that has no
\* assignment in the current schedule, and for every instance without a
\* delivery date; checked on the schedule a run leaves behind
C33_UnplacedSlackIsInfinite ==
    pc = "done" =>
        \A t \in DOMAIN tasks :
            (t \notin Scheduled \/ tasks[t].product_line \notin DOMAIN delivery_dates)
                => calculate_slack_time(task_schedule, t) = Infinity

\* C34: when a run on an acyclic graph whose edge endpoints are all live has
\* ended, every live instance is either placed or permanently failed, never
\* both, none is left in the ready heap, and no instance has two assignments
LiveAcyclic == all_tasks_in_constraints \subseteq DOMAIN tasks /\ ~DirectedCycle
C34_PlacedOrFailed ==
    (pc = "done" /\ LiveAcyclic) =>
        /\ Scheduled \cup failed_tasks = DOMAIN tasks
        /\ Scheduled \cap failed_tasks = {}
        /\ ready_tasks = <<>>
        /\ \A i, j \in DOMAIN task_schedule :
               task_schedule[i].task_id = task_schedule[j].task_id => i = j

\* a finished run in which a task was placed after one of its predecessors
\* had failed for good
C34_Witness ==
    /\ pc = "done"
    /\ LiveAcyclic
    /\ \E t \in Scheduled : dependencies(t) \cap failed_tasks # {}

\* the kind calculate_task_priority sees in an instance: 0 late part,
\* 1 quality inspection, 2 rework, 3 production
KindRank(task_id) ==
    IF task_id \in late_part_tasks THEN 0
    ELSE IF task_id \in quality_inspections THEN 1
    ELSE IF task_id \in rework_tasks THEN 2
    ELSE 3

\* C35: in the ready heap every late-part, inspection or rework entry has a
\* smaller key than every production entry, so it is popped first: production
\* keys stay above -500
C35_SpecialBeforeProduction ==
    pc = "running" =>
        \A i, j \in DOMAIN ready_tasks :
            (KindRank(ready_tasks[i].task) < 3 /\ KindRank(ready_tasks[j].task) = 3)
                => ready_tasks[i].priority < ready_tasks[j].priority

\* C35, second half: among the special kinds late parts come before
\* inspections and inspections before rework, retry penalties included
C35_SpecialKindsInOrder ==
    pc = "running" =>
        \A i, j \in DOMAIN ready_tasks :
            (KindRank(ready_tasks[i].task) < KindRank(ready_tasks[j].task)
             /\ KindRank(ready_tasks[j].task) < 3)
                => ready_tasks[i].priority < ready_tasks[j].priority

\* C36: calculate_lateness_metrics reports a product on time only if its last
\* placed task ends at or before the delivery date-time; a product that ends
\* after it, by however little, has lateness_days >= 1 and is not on time
C36_LateByAnyAmountIsLate ==
    pc = "done" =>
        \A product \in DOMAIN delivery_dates :
            ProductEntries(global_priority_list, product) # {} =>
                LET last_task_end == LastTaskEnd(global_priority_list, product)
                IN /\ on_time(global_priority_list, product)
                        => last_task_end <= delivery_dates[product]
                   /\ last_task_end > delivery_dates[product]
                        => /\ lateness_days(global_priority_list, product) >= 1
                           /\ ~on_time(global_priority_list, product)

\* C37: the shift recorded in an assignment is the shift whose window
\* contains the start of the assignment, for mechanic tasks and for quality
\* inspections alike
C37_RecordedShiftCoversStart ==
    \A i \in DOMAIN task_schedule :
        InWindow(task_schedule[i].shift, MinuteOfDay(task_schedule[i].start_time))

\* C37 for mechanic tasks alone
C37_MechanicShiftCoversStart ==
    \A i \in DOMAIN task_schedule :
        ~task_schedule[i].is_quality
            => InWindow(task_schedule[i].shift, MinuteOfDay(task_schedule[i].start_time))

\* C38: when simulate_priority_change has returned, task_schedule is the
\* schedule held before the call and global_priority_list has the same
\* entries in the same order with the same priority_score values
ByNormalReturn == opt.kind = "simulate" /\ opt.at = "returned"
C38_StateAsFound ==
    ByNormalReturn =>
        /\ task_schedule = prev.task_schedule
        /\ global_priority_list = prev.global_priority_list

\* C38 without the scores: the schedule, and the tasks of the list in order
C38_ScheduleAndOrderAsFound ==
    ByNormalReturn =>
        /\ task_schedule = prev.task_schedule
        /\ [i \in DOMAIN global_priority_list |-> global_priority_list[i].task_id]
               = [i \in DOMAIN prev.global_priority_list |->
                     prev.global_priority_list[i].task_id]

\* C39: under every interleaving of the background initialization with the
\* requests, whenever initialized is true, initializing is false and
\* scenario_results has an entry for each of the four scenarios
AllScenarios == {Scenarios[p].name : p \in DOMAIN Scenarios}
C39_InitializedMeansComplete ==
    Status.initialized =>
        /\ ~Status.initializing
        /\ AllScenarios \subseteq app.scenario_results

\* C39 once the initialization thread has left its last assignments: no
\* thread is between its start and its return
Quiescent == \A r \in Requests : app.thread[r] \in {"none", "returned", "raised"}
C39_InitializedAtRestMeansComplete ==
    (Status.initialized /\ Quiescent) => AllScenarios \subseteq app.scenario_results

====
